---- MODULE Spec2Model ----
(***************************************************************************)
(* Model of caffe::GPUMemory (src/caffe/util/gpu_memory.cpp): the          *)
(* process-wide Manager over the cub caching allocator, the per-device     *)
(* DevInfo estimate, the Workspace reserve protocol and the pinned pools.  *)
(*                                                                         *)
(* Spec      single-threaded calls on one Workspace, inside and outside a  *)
(*           Scope                                                         *)
(* SpecMgr   single-threaded calls on the Manager                          *)
(* SpecConc  threads interleaving the steps of try_allocate / deallocate   *)
(* SpecLock  threads interleaving the steps of the pinned pools with calls *)
(*           of try_allocate / deallocate and exclusive lock holders       *)
(* SpecPin   single-threaded calls on the process-wide pinned pool         *)
(***************************************************************************)
EXTENDS Integers, Sequences, FiniteSets, TLC

(* ------------------------------------------------------------------ *)
(* Program constants                                                    *)
(* ------------------------------------------------------------------ *)
INVALID_DEVICE == -1
BIN_GROWTH == 2
MIN_BIN == 6
INITIAL_PINNED_BYTES == 64
ALIGN_BITS == 7

(* ------------------------------------------------------------------ *)
(* Bounds of the model                                                  *)
(* ------------------------------------------------------------------ *)
NumDevices == 1          \* cudaGetDeviceCount
PhysTotal == 256         \* props.totalGlobalMem of every device, in bytes
MaxPtrs == 2             \* device blocks that exist at one time
MaxScopes == 1           \* explicit Scope objects alive at one time
MaxFlush == 1            \* cap on DevInfo::flush_count_
MaxDecays == 2           \* threshold decays followed after one init
MaxHost == 3             \* page-locked host buffers that exist at one time
MaxGroup == 1            \* the largest group index asked of a pinned pool
NumThreads == 2          \* threads of the concurrent specification
SIZE_BITS == 16          \* width given to size_t, scaled to the sizes of the model
NumQueried == 2          \* devices of the specification of update_dev_info alone
MaxCurve == 37           \* decays of the threshold behind the Manager a run starts from

Devices == 0 .. (NumDevices - 1)
Ptrs == 1 .. MaxPtrs
NULL == 0
AllocSizes == {64, 100}  \* request sizes of try_allocate
OtherUse == {0, 192}     \* device bytes held by anyone but this allocator

Min(a, b) == IF a < b THEN a ELSE b
Max(a, b) == IF a > b THEN a ELSE b

RECURSIVE Pow(_, _)
Pow(b, e) == IF e = 0 THEN 1 ELSE b * Pow(b, e - 1)

RECURSIVE SumBytes(_, _)
SumBytes(B, S) ==
  IF S = {} THEN 0
  ELSE LET p == CHOOSE q \in S : TRUE IN B[p].bytes + SumBytes(B, S \ {p})

(* align_down<7>(x): x with its low 7 bits cleared *)
align_down(x) == (x \div Pow(2, ALIGN_BITS)) * Pow(2, ALIGN_BITS)

(* ------------------------------------------------------------------ *)
(* The cub caching allocator and the driver heap behind it              *)
(* ------------------------------------------------------------------ *)
NoBlock == [st |-> "none", dev |-> 0, bytes |-> 0, own |-> "none"]

(* cub rounds a request up to the next bin, a power of BIN_GROWTH not below
   2^MIN_BIN (every size of the model is below the largest bin, 2^MAX_BIN). *)
RECURSIVE BinFrom(_, _)
BinFrom(size, b) == IF b >= size THEN b ELSE BinFrom(size, b * BIN_GROWTH)
BinBytes(size) == BinFrom(size, Pow(BIN_GROWTH, MIN_BIN))

(* the lowest unused pointer: which address the driver returns is immaterial *)
FreshPtr(B) == {q \in Ptrs : B[q].st = "none" /\ \A r \in Ptrs : r < q => B[r].st # "none"}

(* bytes of device d the driver has handed to this process *)
CarvedBytes(B, d) ==
  SumBytes(B, {p \in Ptrs : B[p].st \in {"live", "cached", "orphan"} /\ B[p].dev = d})

(* cub's cached_bytes[d].free *)
CachedFree(B, d) == SumBytes(B, {p \in Ptrs : B[p].st = "cached" /\ B[p].dev = d})

(* cudaMemGetInfo: what is not carved by this process nor used by others *)
DriverFree(B, d, oth) == Max(0, PhysTotal - CarvedBytes(B, d) - oth[d])

(* cub frees every cached block of a device before it retries a failed cudaMalloc *)
FlushCached(B, d) ==
  [p \in Ptrs |-> IF B[p].st = "cached" /\ B[p].dev = d THEN NoBlock ELSE B[p]]

(* The outcomes DeviceAllocate(device, size) can have in heap B:
   hit    a cached block of the bin is reused            (size_allocated = 0)
   carve  cudaMalloc succeeds at once                    (size_allocated = bytes)
   retry  cudaMalloc fails, the cache is flushed, the retry succeeds
          (status success, the failed call is left in cudaGetLastError)
   fail   the retry fails too                            (status error)  *)
AllocOutcomes(B, d, size) ==
  LET bytes == BinBytes(size)
      F == FlushCached(B, d)
      hits == {q \in Ptrs : B[q].st = "cached" /\ B[q].dev = d /\ B[q].bytes = bytes}
  IN  IF hits # {}
      THEN {[kind |-> "hit", p |-> p] : p \in {q \in hits : \A r \in hits : q <= r}}
      ELSE {[kind |-> "carve", p |-> p] :
              p \in {q \in FreshPtr(B) : CarvedBytes(B, d) + bytes <= PhysTotal}}
           \cup
           {[kind |-> "retry", p |-> p] :
              p \in {q \in FreshPtr(F) : CarvedBytes(F, d) + bytes <= PhysTotal}}
           \cup
           {[kind |-> "fail", p |-> NULL]}

(* ------------------------------------------------------------------ *)
(* GPUMemory::Manager.  M is the process state a Manager call works on: *)
(*   initialized_, cub_allocator_ (TRUE: the handle is set), debug_,    *)
(*   dev_info_, update_thresholds_  the Manager's fields                *)
(*   blocks          the device blocks behind cub_allocator_            *)
(*   scope_static    lazy_init's function-local static Scope is built   *)
(*   current_device  the calling thread's CUDA device                   *)
(*   fatal           a CHECK / LOG(FATAL) / crash has ended the process *)
(*   refreshed       devices update_dev_info ran on in the current call *)
(*   decays          per device, times its threshold was decayed since  *)
(*                   init last set it                                   *)
(*   hist            per device, history kept for the properties only:  *)
(*                   base = free_ as the last update_dev_info left it,  *)
(*                   net = bytes cub reported freed minus bytes it      *)
(*                   reported carved since then                         *)
(* ------------------------------------------------------------------ *)
DevInfo0 == [free_ |-> 0, total_ |-> 0, flush_count_ |-> 0]

(* the Manager as its constructor leaves it when cudaGetDeviceCount says n *)
ManagerOf(n) ==
  [initialized_ |-> FALSE, cub_allocator_ |-> FALSE, debug_ |-> FALSE,
   dev_info_ |-> [d \in 0 .. (n - 1) |-> DevInfo0],
   update_thresholds_ |-> [d \in 0 .. (n - 1) |-> 0],
   blocks |-> [p \in Ptrs |-> NoBlock],
   scope_static |-> FALSE, current_device |-> 0, fatal |-> FALSE,
   refreshed |-> {}, decays |-> [d \in 0 .. (n - 1) |-> 0],
   hist |-> [d \in 0 .. (n - 1) |-> [base |-> 0, net |-> 0]]]

Manager0 == ManagerOf(NumDevices)

(* the clamps of update_dev_info on what the driver returned *)
ClampTotal(propsTotal, memTotal) == Min(propsTotal, memTotal)
FreeAsReturned(total, memFree) == memFree              \* variant: free_ is not clamped
ClampFree(total, memFree) == Min(total, memFree)

(* lines 306-319 with what the driver returned: props.totalGlobalMem, and the
   free and total bytes of cudaMemGetInfo *)
UpdateFromDriver(M, device, propsTotal, memFree, memTotal) ==
  LET initial_device == M.current_device
      total == ClampTotal(propsTotal, memTotal)
      free == ClampFree(total, memFree)
      M1 == [M EXCEPT !.current_device = device]
  IN  [M1 EXCEPT !.dev_info_[device].total_ = total,
                 !.dev_info_[device].free_ = free,
                 !.refreshed = @ \cup {device},
                 !.hist[device] = [base |-> free, net |-> 0],
                 !.current_device = initial_device]

(* update_dev_info(device) on a driver that reports what is carved *)
update_dev_info(M, device, oth) ==
  UpdateFromDriver(M, device, PhysTotal, DriverFree(M.blocks, device, oth), PhysTotal)

(* the loop of init over gpus: refresh, then threshold := total *)
SetThreshold(M, g) ==
  [M EXCEPT !.update_thresholds_[g] = M.dev_info_[g].total_, !.decays[g] = 0]

RECURSIVE InitDevices(_, _, _)
InitDevices(M, gpus, oth) ==
  IF gpus = << >> THEN M
  ELSE InitDevices(SetThreshold(update_dev_info(M, Head(gpus), oth), Head(gpus)),
                   Tail(gpus), oth)

(* variant: the test of line 171 left out *)
InitAgain(M, gpus, debug, debug_env, oth) ==
  [InitDevices([M EXCEPT !.debug_ = debug \/ debug_env, !.cub_allocator_ = TRUE],
               gpus, oth)
     EXCEPT !.initialized_ = TRUE]

init(M, gpus, debug, debug_env, oth) ==
  IF M.initialized_ THEN M
  ELSE [InitDevices([M EXCEPT !.debug_ = debug \/ debug_env, !.cub_allocator_ = TRUE],
                    gpus, oth)
          EXCEPT !.initialized_ = TRUE]

(* cub_allocator_.reset(): the allocator is destroyed with skip_cleanup set, so
   its blocks stay with the driver: the live ones are unknown to any later
   allocator, the cached ones are never seen again by this process and count
   from then on as bytes used by others. *)
DropAllocator(B) ==
  [p \in Ptrs |-> IF B[p].st = "live" THEN [B[p] EXCEPT !.st = "orphan"]
                  ELSE IF B[p].st = "cached" THEN NoBlock
                  ELSE B[p]]

(* variant: the flag is left set *)
ResetKeepsFlag(M) ==
  IF ~M.initialized_ THEN M
  ELSE [M EXCEPT !.cub_allocator_ = FALSE, !.blocks = DropAllocator(@)]

reset(M) ==
  IF ~M.initialized_ THEN M
  ELSE [M EXCEPT !.cub_allocator_ = FALSE,
                 !.blocks = DropAllocator(@),
                 !.initialized_ = FALSE]

(* Scope(gpus, debug) calls init, ~Scope calls reset *)
ScopeConstruct(M, gpus, debug, debug_env, oth) == init(M, gpus, debug, debug_env, oth)
ScopeDestruct(M) == reset(M)

(* `static Scope gpu_memory_scope(gpus)` is constructed the first time control
   passes its declaration and never again *)
StaticScopeRuns(M) == ~M.scope_static

lazy_init(M, device, debug_env, oth) ==
  IF M.initialized_ THEN M
  ELSE IF StaticScopeRuns(M)
  THEN [ScopeConstruct(M, <<IF device < 0 THEN M.current_device ELSE device>>,
                       FALSE, debug_env, oth)
          EXCEPT !.scope_static = TRUE]
  ELSE M

(* the three-way choice of try_allocate on freshly carved bytes *)
AtOrBelowThreshold(free, threshold) == free <= threshold   \* variant: <= for <
BelowThreshold(free, threshold) == free < threshold
ShortOfFree(free, size_allocated) == free < size_allocated
DebitForgotten(free, size_allocated) == free             \* variant: no debit
Debit(free, size_allocated) == free - size_allocated
DecayByHalf(threshold) == threshold \div 2                \* variant: *= 0.5F
DecayThreshold(threshold) == (threshold * 9) \div 10     \* *= 0.9F, truncated
CreditTwice(free, size_deallocated) == free + size_deallocated + size_deallocated  \* variant
Credit(free, size_deallocated) == free + size_deallocated

(* lines 239-250: the accounting under the shared lock *)
AccountAllocation(M, device, size_allocated, oth) ==
  IF size_allocated > 0
  THEN IF BelowThreshold(M.dev_info_[device].free_, M.update_thresholds_[device])
       THEN [update_dev_info(M, device, oth)
               EXCEPT !.update_thresholds_[device] = DecayThreshold(@),
                      !.decays[device] = @ + 1]
       ELSE IF ShortOfFree(M.dev_info_[device].free_, size_allocated)
       THEN update_dev_info(M, device, oth)
       ELSE [M EXCEPT !.dev_info_[device].free_ = Debit(@, size_allocated)]
  ELSE M

CountNoFlush(M, i) == M                                  \* variant: no count
CountFlush(M, i) == [M EXCEPT !.dev_info_[i].flush_count_ = @ + 1]

(* lines 266-281: every initialized device is refreshed, the current one counted *)
RefreshOne(M, i, oth) ==
  IF M.dev_info_[i].total_ # 0
  THEN IF i = M.current_device
       THEN CountFlush(update_dev_info(M, i, oth), i)
       ELSE update_dev_info(M, i, oth)
  ELSE M

RECURSIVE RefreshAll(_, _, _)
RefreshAll(M, i, oth) ==
  IF i >= NumDevices THEN M ELSE RefreshAll(RefreshOne(M, i, oth), i + 1, oth)

(* lines 252-282: after the lock is released *)
RefreshAfterError(M, device, failed, oth) ==
  IF ~failed THEN M
  ELSE IF device > INVALID_DEVICE /\ device < NumDevices
  THEN IF M.dev_info_[device].total_ # 0
       THEN CountFlush(update_dev_info(M, device, oth), device)
       ELSE M
  ELSE RefreshAll(M, 0, oth)

(* what DeviceAllocate reports for outcome o *)
Succeeded(o) == o.kind # "fail"
SizeAllocated(o, size) == IF o.kind \in {"carve", "retry"} THEN BinBytes(size) ELSE 0
LastError(o) == o.kind \in {"retry", "fail"}          \* cudaGetLastError() # cudaSuccess

(* the heap after DeviceAllocate ended with outcome o *)
AllocBlocks(B, device, size, o, owner) ==
  IF o.kind \in {"hit", "carve"}
  THEN [B EXCEPT ![o.p] = [st |-> "live", dev |-> device, bytes |-> BinBytes(size),
                           own |-> owner]]
  ELSE IF o.kind = "retry"
  THEN [FlushCached(B, device)
          EXCEPT ![o.p] = [st |-> "live", dev |-> device, bytes |-> BinBytes(size),
                           own |-> owner]]
  ELSE FlushCached(B, device)

DeviceAllocate(M, size, device, o, owner) ==
  [M EXCEPT !.blocks = AllocBlocks(@, device, size, o, owner),
            !.hist[device].net = @ - SizeAllocated(o, size)]

(* lines 239-250 *)
Accounted(M, size, device, o, oth) ==
  IF Succeeded(o) /\ device > INVALID_DEVICE
  THEN AccountAllocation(M, device, SizeAllocated(o, size), oth)
  ELSE M

(* the note of the devices update_dev_info ran on, started afresh *)
Unrefreshed(M) == [M EXCEPT !.refreshed = {}]

(* The result of try_allocate: the Manager after the call (M), the pointer and
   status, whether the call got as far as cub_allocator_->DeviceAllocate
   (reached) and what initialized_ and cub_allocator_ were at that point,
   whether update_dev_info ran on the device in lines 239-250 (refreshed) and
   in lines 256-282 (flushed), the total_ of the device when line 260 read it,
   what DeviceAllocate did (kind), and whether the outcome is one the heap
   allows within the bounds (valid). *)
Stopped(M, reached) ==
  [M |-> [M EXCEPT !.fatal = TRUE], ptr |-> NULL, status |-> FALSE,
   reached |-> reached, init_at |-> M.initialized_, cub_at |-> M.cub_allocator_,
   size_allocated |-> 0, failed |-> FALSE, free_at |-> 0, threshold_at |-> 0,
   refreshed |-> FALSE, flushed |-> FALSE, total_at |-> 0, kind |-> "none",
   valid |-> TRUE]

Returned(M, M1, M2, size, device, o) ==
  [M |-> M, ptr |-> o.p, status |-> Succeeded(o), reached |-> TRUE,
   init_at |-> M1.initialized_, cub_at |-> M1.cub_allocator_,
   size_allocated |-> SizeAllocated(o, size),
   free_at |-> M1.dev_info_[device].free_, threshold_at |-> M1.update_thresholds_[device],
   failed |-> ~Succeeded(o) \/ LastError(o),
   refreshed |-> device \in M2.refreshed, flushed |-> device \in M.refreshed,
   total_at |-> M2.dev_info_[device].total_, kind |-> o.kind,
   valid |-> /\ o \in AllocOutcomes(M1.blocks, device, size)
             /\ M.dev_info_[device].flush_count_ <= MaxFlush
             /\ M.decays[device] <= MaxDecays]

(* lines 229-283, M1 being the Manager after lines 226-228 *)
TryAllocateFrom(M1, size, device, o, owner, oth) ==
  IF M1.current_device # device       \* CHECK_EQ(current_device(), device)
  THEN Stopped(M1, FALSE)
  ELSE IF ~M1.cub_allocator_          \* a call through the null handle crashes
  THEN Stopped(M1, TRUE)
  ELSE LET M2 == Accounted(DeviceAllocate(Unrefreshed(M1), size, device, o, owner),
                           size, device, o, oth)
           M3 == RefreshAfterError(Unrefreshed(M2), device,
                                   ~Succeeded(o) \/ LastError(o), oth)
       IN  Returned(M3, M1, M2, size, device, o)

(* try_allocate(&ptr, pstream, size, device): o is what DeviceAllocate does *)
try_allocate(M, size, device, o, owner, debug_env, oth) ==
  TryAllocateFrom(IF ~M.initialized_ THEN lazy_init(M, device, debug_env, oth) ELSE M,
                  size, device, o, owner, oth)

(* DeviceFree(device, ptr): a block of the allocator is put back in its cache
   (size_deallocated = 0) or, when cub does not cache it, returned to the driver
   (size_deallocated = its bytes); a block the allocator does not know goes to
   cudaFree and is reported with its bytes or with none. *)
FreeBlocks(B, ptr, recache) ==
  IF B[ptr].st = "live" /\ recache THEN [B EXCEPT ![ptr].st = "cached", ![ptr].own = "none"]
  ELSE [B EXCEPT ![ptr] = NoBlock]
SizeDeallocated(B, ptr, recache) == IF recache THEN 0 ELSE B[ptr].bytes

DeviceFree(M, ptr, device, recache) ==
  [M EXCEPT !.blocks = FreeBlocks(@, ptr, recache),
            !.hist[device].net = @ + SizeDeallocated(M.blocks, ptr, recache)]

(* lines 299-301 *)
Credited(M, device, size_deallocated) ==
  IF size_deallocated > 0
  THEN [M EXCEPT !.dev_info_[device].free_ = Credit(@, size_deallocated)]
  ELSE M

(* deallocate(ptr, device); unloading: cudaGetDevice says cudaErrorCudartUnloading *)
SkipsOnlyNull(M, ptr, unloading) == ptr = NULL \/ ~M.cub_allocator_   \* variant: line 294 left out
(* lines 288 and 294: the call returns before it takes the lock *)
SkipsFree(M, ptr, unloading) == ptr = NULL \/ ~M.cub_allocator_ \/ unloading

deallocate(M, ptr, device, recache, unloading) ==
  IF SkipsFree(M, ptr, unloading) THEN M
  ELSE Credited(DeviceFree(M, ptr, device, recache), device,
                SizeDeallocated(M.blocks, ptr, recache))

(* variant: the sanity check of lines 344-346 left out *)
ReportUnclamped(M, cur_device) ==
  [M |-> M,
   free_mem |-> M.dev_info_[cur_device].free_ + CachedFree(M.blocks, cur_device),
   total_mem |-> M.dev_info_[cur_device].total_]

(* lines 341-346 on the Manager M *)
Report(M, cur_device) ==
  [M |-> M,
   free_mem |-> IF M.dev_info_[cur_device].free_ + CachedFree(M.blocks, cur_device)
                     > M.dev_info_[cur_device].total_
                THEN M.dev_info_[cur_device].total_
                ELSE M.dev_info_[cur_device].free_ + CachedFree(M.blocks, cur_device),
   total_mem |-> M.dev_info_[cur_device].total_]

(* GetInfo(&free_mem, &total_mem, with_update) *)
GetInfo(M, with_update, oth) ==
  IF ~M.cub_allocator_                       \* CHECK(cub_allocator_)
  THEN [M |-> [M EXCEPT !.fatal = TRUE], free_mem |-> 0, total_mem |-> 0]
  ELSE Report(IF with_update THEN update_dev_info(M, M.current_device, oth) ELSE M,
              M.current_device)

(* ------------------------------------------------------------------ *)
(* GPUMemory::Workspace  W = [ptr_, size_, device_]                     *)
(* ------------------------------------------------------------------ *)
Workspace0 == [ptr_ |-> NULL, size_ |-> 0, device_ |-> 0]

(* a block whose pointer the Workspace dropped without freeing it is lost to
   the process: from then on it counts as bytes used by others *)
Forget(B, ptr) == IF ptr # NULL /\ B[ptr].own = "ws" THEN [B EXCEPT ![ptr] = NoBlock] ELSE B

(* release(): hand the memory back to the Manager, then ptr_ = nullptr, size_ = 0 *)
release(M, W, recache, unloading) ==
  [M |-> [deallocate(M, W.ptr_, W.device_, recache, unloading)
            EXCEPT !.blocks = Forget(@, W.ptr_)],
   W |-> [W EXCEPT !.ptr_ = NULL, !.size_ = 0]]

(* the guard of try_reserve: a new allocation is needed *)
MustGrowOnEqual(size, W) == size >= W.size_ \/ W.ptr_ = NULL     \* variant: >= for >
MustGrow(size, W) == size > W.size_ \/ W.ptr_ = NULL

(* lines 82-84 *)
Adopt(W, device) == IF device # INVALID_DEVICE THEN [W EXCEPT !.device_ = device] ELSE W

(* What a Workspace call did: the Manager and Workspace after it, its result, and
   whether it released, reached DeviceAllocate, queried GetInfo (with the
   aligned free bytes it then saw). *)
Did(M, W, status, released, allocated, queried, avail, valid) ==
  [M |-> M, W |-> W, status |-> status, released |-> released,
   allocated |-> allocated, queried |-> queried, avail |-> avail, valid |-> valid]

(* variant: size_ is set whatever try_allocate returned *)
TookSizeAnyway(A, W, size) ==
  [M |-> A.M, W |-> [W EXCEPT !.ptr_ = A.ptr, !.size_ = size],
   status |-> A.status, released |-> TRUE, allocated |-> A.reached,
   queried |-> FALSE, avail |-> 0, valid |-> A.valid]

(* lines 85-89, A being what try_allocate returned *)
Took(A, W, size) ==
  Did(A.M, IF A.status THEN [W EXCEPT !.ptr_ = A.ptr, !.size_ = size]
           ELSE [W EXCEPT !.ptr_ = A.ptr],
      A.status, TRUE, A.reached, FALSE, 0, A.valid)

(* lines 82-89, W being the released Workspace *)
Regrow(M, W, size, o, debug_env, oth) ==
  Took(try_allocate(M, size, W.device_, o, "ws", debug_env, oth), W, size)

(* try_reserve(size, device) *)
try_reserve(M, W, size, device, o, recache, unloading, debug_env, oth) ==
  IF MustGrow(size, W)
  THEN Regrow(release(M, W, recache, unloading).M,
              Adopt(release(M, W, recache, unloading).W, device),
              size, o, debug_env, oth)
  ELSE Did(M, W, TRUE, FALSE, FALSE, FALSE, 0, TRUE)

(* reserve(size, device): allocate exactly size bytes, fatal when that fails *)
Reserved(A, W, size) ==
  Did(IF A.status THEN A.M ELSE [A.M EXCEPT !.fatal = TRUE],
      IF A.status THEN [W EXCEPT !.ptr_ = A.ptr, !.size_ = size] ELSE W,
      A.status, FALSE, A.reached, FALSE, 0, A.valid)

reserve(M, W, size, device, o, debug_env, oth) ==
  Reserved(try_allocate(M, size, Adopt(W, device).device_, o, "ws", debug_env, oth),
           Adopt(W, device), size)

(* the two tests of safe_reserve *)
NothingToDoStrict(size, held) == size < held                    \* variant: < for <=
NothingToDo(size, held) == size <= held
OutOfMemoryIgnoringHeld(size, held, gpu_bytes_left) ==          \* variant: size_ left out
  size > align_down(gpu_bytes_left)
OutOfMemory(size, held, gpu_bytes_left) == size > held + align_down(gpu_bytes_left)

(* lines 73-75, V being what reserve did *)
Grown(V, avail) == [V EXCEPT !.status = TRUE, !.released = TRUE, !.queried = TRUE,
                             !.avail = avail]

(* lines 67-75, G being what GetInfo returned *)
SafeReserveFrom(G, W, size, device, o, recache, unloading, debug_env, oth) ==
  IF G.M.fatal \/ OutOfMemory(size, W.size_, G.free_mem)
  THEN Did([G.M EXCEPT !.fatal = TRUE], W, FALSE, FALSE, FALSE, TRUE,
           align_down(G.free_mem), TRUE)
  ELSE Grown(reserve(release(G.M, W, recache, unloading).M,
                     release(G.M, W, recache, unloading).W,
                     size, device, o, debug_env, oth),
             align_down(G.free_mem))

(* safe_reserve(size, device) *)
safe_reserve(M, W, size, device, o, recache, unloading, debug_env, oth) ==
  IF NothingToDo(size, W.size_)
  THEN Did(M, W, FALSE, FALSE, FALSE, FALSE, 0, TRUE)
  ELSE SafeReserveFrom(GetInfo(M, TRUE, oth), W, size, device, o, recache, unloading,
                       debug_env, oth)

(* ------------------------------------------------------------------ *)
(* The process-wide pinned pool.  P holds the three vectors of the      *)
(* Manager (indexed device + 1, group + 1), the page-locked host heap   *)
(* (host[a] = bytes of the buffer at address a, 0: none), and what went  *)
(* wrong: fatal (a CUDA_CHECK failed), double_free (cudaFreeHost of an   *)
(* address that holds no buffer).                                       *)
(* ------------------------------------------------------------------ *)
HostAddrs == 1 .. MaxHost

(* cudaHostGetDevicePointer: the device-side alias of a host address *)
DevAlias(h) == IF h = NULL THEN NULL ELSE h + MaxHost

(* the Manager constructor sizes the three vectors to the device count *)
Pinned0 ==
  [pinned_host_buffers_ |-> [i \in 1 .. NumDevices |-> << >>],
   pinned_device_buffers_ |-> [i \in 1 .. NumDevices |-> << >>],
   pinned_buffer_sizes_ |-> [i \in 1 .. NumDevices |-> << >>],
   host |-> [a \in HostAddrs |-> 0],
   fatal |-> FALSE, double_free |-> FALSE]

(* vector::resize(n) of a shorter vector: value-initialized elements are added *)
Grow(v, n, z) == v \o [i \in 1 .. (n - Len(v)) |-> z]

NeedsDevice(P, device) == device + 1 > Len(P.pinned_buffer_sizes_)
NeedsGroup(P, device, group) == group + 1 > Len(P.pinned_buffer_sizes_[device + 1])

GrowDevices(P, device) ==
  IF NeedsDevice(P, device)
  THEN [P EXCEPT !.pinned_host_buffers_ = Grow(@, device + 1, << >>),
                 !.pinned_device_buffers_ = Grow(@, device + 1, << >>),
                 !.pinned_buffer_sizes_ = Grow(@, device + 1, << >>)]
  ELSE P

GrowGroups(P, device, group) ==
  IF NeedsGroup(P, device, group)
  THEN [P EXCEPT !.pinned_host_buffers_[device + 1] = Grow(@, group + 1, NULL),
                 !.pinned_device_buffers_[device + 1] = Grow(@, group + 1, NULL),
                 !.pinned_buffer_sizes_[device + 1] = Grow(@, group + 1, 0)]
  ELSE P

(* resize_buffers(device, group): the vectors after it, and what it returns *)
resize_buffers(P, device, group) == GrowGroups(GrowDevices(P, device), device, group)
Resized(P, device, group) ==
  NeedsDevice(P, device) \/ NeedsGroup(GrowDevices(P, device), device, group)

HostAt(P, device, group) == P.pinned_host_buffers_[device + 1][group + 1]
DeviceAt(P, device, group) == P.pinned_device_buffers_[device + 1][group + 1]
SizeAt(P, device, group) == P.pinned_buffer_sizes_[device + 1][group + 1]

RaisedSizeNot(size) == size                              \* variant: no minimum
RaisedSize(size) == Max(size, INITIAL_PINNED_BYTES)      \* line 154
MustReallocate(size, current_size, resized) == size > current_size \/ resized

(* cudaFreeHost(h): nullptr is accepted and frees nothing *)
cudaFreeHost(P, h) ==
  IF h = NULL THEN P
  ELSE IF P.host[h] = 0 THEN [P EXCEPT !.double_free = TRUE]
  ELSE [P EXCEPT !.host[h] = 0]

(* lines 160-162 *)
FreeOld(P, device, group, resized) ==
  IF ~resized THEN cudaFreeHost(P, HostAt(P, device, group)) ELSE P

(* lines 163-166: cudaHostAlloc gives address a (NULL: it failed and CUDA_CHECK
   aborts), then the alias and the size are recorded *)
Remap(P, device, group, size, a) ==
  IF a = NULL THEN [P EXCEPT !.fatal = TRUE]
  ELSE [P EXCEPT !.host[a] = size,
                 !.pinned_host_buffers_[device + 1][group + 1] = a,
                 !.pinned_device_buffers_[device + 1][group + 1] = DevAlias(a),
                 !.pinned_buffer_sizes_[device + 1][group + 1] = size]

(* lines 154-167, P being the pool after resize_buffers *)
PinnedBufferFrom(P, size, device, group, resized, a) ==
  IF MustReallocate(size, SizeAt(P, device, group), resized)
  THEN Remap(FreeOld(P, device, group, resized), device, group, size, a)
  ELSE P

(* pinned_buffer(size, device, group) single-threaded: the pool after it; it
   returns DeviceAt of that pool *)
pinned_buffer(P, size, device, group, a) ==
  PinnedBufferFrom(resize_buffers(P, device, group), RaisedSize(size), device, group,
                   Resized(P, device, group), a)

(* the addresses cudaHostAlloc can return in that call: any that holds no
   buffer once the old one is freed; NULL when the call fails or is not made *)
HostOutcomes(P, size, device, group) ==
  IF MustReallocate(RaisedSize(size),
                    SizeAt(resize_buffers(P, device, group), device, group),
                    Resized(P, device, group))
  THEN {NULL} \cup
       {a \in HostAddrs :
          FreeOld(resize_buffers(P, device, group), device, group,
                  Resized(P, device, group)).host[a] = 0}
  ELSE {NULL}

(* ------------------------------------------------------------------ *)
(* Single-threaded specifications                                       *)
(* ------------------------------------------------------------------ *)
VARIABLES
  mgr_,      \* GPUMemory::mgr_ with the process state around it (see Manager0)
  ws,        \* one Workspace
  scopes,    \* explicit Scope objects alive
  last,      \* the last call: its arguments and what it did
  pin,       \* the process-wide pinned pool (see Pinned0)
  pcall,     \* the last pinned_buffer call: its arguments and what it did
  pc,        \* per thread, where it is in the call it is making
  loc,       \* per thread, the locals of that call and what the thread owns
  rw,        \* GPUMemory::mutex_: who holds it shared, whether it is held exclusively
  gpumem     \* the workspace tables of GPUMemory and ws_mutex_init_ (see GPUMemory0)

vars == <<mgr_, ws, scopes, last, pin, pcall, pc, loc, rw, gpumem>>
pinvars == <<pin, pcall>>
thrvars == <<pc, loc, rw, gpumem>>

WsSizes == {0, 64, 192}                      \* sizes asked of the Workspace
DeviceArgs == Devices \cup {INVALID_DEVICE}
GpuLists == {<< >>} \cup {<<d>> : d \in Devices} \cup {<<0, d>> : d \in Devices \ {0}}
Others == [Devices -> OtherUse]
Fail == [kind |-> "fail", p |-> NULL]

(* getenv("DEBUG_GPU_MEM") is read only when init runs *)
DebugEnvs(M) == IF M.initialized_ THEN {FALSE} ELSE BOOLEAN

(* how a deallocate of ptr can go: the block is put back in the cache, it is
   returned to the driver, or the runtime is unloading; one way when the call
   returns before any of it matters *)
FreeModes(M, ptr) ==
  IF ptr = NULL \/ ~M.cub_allocator_ THEN {"recache", "unloading"}
  ELSE {"recache", "return", "unloading"}
Recache(mode) == mode = "recache"
Unloading(mode) == mode = "unloading"

(* the inputs that play no part in a call that returns at once *)
ModesIf(grow, M, ptr) == IF grow THEN FreeModes(M, ptr) ELSE {"recache"}
DebugEnvsIf(grow, M) == IF grow THEN DebugEnvs(M) ELSE {FALSE}
OthersIf(grow) == IF grow THEN Others ELSE {[d \in Devices |-> 0]}

(* what DeviceAllocate can do when a call on M reaches it with heap B; Fail
   stands for "not reached" otherwise *)
OutcomesAt(M, B, device, size) ==
  IF device \in Devices /\ device = M.current_device
  THEN AllocOutcomes(B, device, size) ELSE {Fail}
OutcomesIf(grow, M, B, device, size) ==
  IF grow THEN OutcomesAt(M, B, device, size) ELSE {Fail}

Call(op, size, held, R) ==
  [op |-> op, size |-> size, held |-> held, ret |-> R.status,
   reached |-> R.reached, init_at |-> R.init_at, cub_at |-> R.cub_at,
   released |-> R.released, allocated |-> R.allocated, queried |-> R.queried,
   avail |-> R.avail]
Plain == [status |-> TRUE, reached |-> FALSE, init_at |-> FALSE, cub_at |-> FALSE,
          released |-> FALSE, allocated |-> FALSE, queried |-> FALSE, avail |-> 0]
Other == Call("other", 0, 0, Plain)

(* the Manager as a call leaves it *)
Exit(M) == [M EXCEPT !.refreshed = {}]

Threads == 1 .. NumThreads

(* a thread outside any call, owning nothing *)
Loc0 ==
  [size |-> 0, ptr |-> NULL, size_allocated |-> 0, failed |-> FALSE, r |-> 0,
   device |-> 0, group |-> 0, resized |-> FALSE, ptrs |-> {},
   tsizes |-> << >>, thost |-> << >>, tdev |-> << >>]

NoPinnedCall == [op |-> "none", size |-> 0, device |-> 0, group |-> 0, ret |-> NULL]

PinInit ==
  /\ pin = Pinned0
  /\ pcall = NoPinnedCall

(* The statics of GPUMemory at program start, lines 21-27: ws_mutex_init_ is
   free (0, else the thread that holds it), both tables are empty vectors.  An
   entry is NULL or the number of the Workspace it points to, the Workspaces
   being numbered as make_shared makes them (made); released holds those that
   Finalize called release() on; at and device say where each thread is in
   Init or Finalize and the current device it read; ready holds the devices
   for which Init has returned and Finalize has not begun since. *)
GPUMemory0 ==
  [ws_mutex_init_ |-> 0, workspace_ |-> << >>, weights_workspace_ |-> << >>,
   made |-> 0, released |-> {},
   at |-> [t \in Threads |-> "out"], device |-> [t \in Threads |-> 0],
   ready |-> {}]

ThreadsInit ==
  /\ gpumem = GPUMemory0
  /\ pc = [t \in Threads |-> "idle"]
  /\ loc = [t \in Threads |-> Loc0]
  /\ rw = [readers |-> {}, writer |-> FALSE]

Init ==
  /\ mgr_ = Manager0
  /\ ws = Workspace0
  /\ scopes = 0
  /\ last = Other
  /\ PinInit
  /\ ThreadsInit

ScopeCtor ==
  /\ ~mgr_.fatal /\ scopes < MaxScopes
  /\ \E gpus \in GpuLists, debug \in BOOLEAN, debug_env \in DebugEnvs(mgr_),
        oth \in Others :
       mgr_' = Exit(ScopeConstruct(mgr_, gpus, debug, debug_env, oth))
  /\ scopes' = scopes + 1
  /\ last' = Call("Scope", 0, 0, Plain)
  /\ UNCHANGED <<ws, pinvars, thrvars>>

ScopeDtor ==
  /\ ~mgr_.fatal /\ scopes > 0
  /\ mgr_' = Exit(ScopeDestruct(mgr_))
  /\ scopes' = scopes - 1
  /\ last' = Call("~Scope", 0, 0, Plain)
  /\ UNCHANGED <<ws, pinvars, thrvars>>

(* what a try_allocate call did: its arguments, its result, whether it reached
   DeviceAllocate and with what flags, the bytes cub reported carved, whether
   the call or cudaGetLastError reported an error, the free_ and the threshold
   of the device when line 241 read them, whether lines 239-250 and lines
   256-282 refreshed the device, the total_ line 260 read, and what
   DeviceAllocate did *)
AllocateReturns(size, device, A) ==
  /\ A.valid
  /\ mgr_' = Exit(A.M)
  /\ last' = [op |-> "try_allocate", size |-> size, device |-> device,
              ret |-> A.status, reached |-> A.reached,
              init_at |-> A.init_at, cub_at |-> A.cub_at,
              size_allocated |-> A.size_allocated, failed |-> A.failed,
              free_at |-> A.free_at, threshold_at |-> A.threshold_at,
              refreshed |-> A.refreshed, flushed |-> A.flushed,
              total_at |-> A.total_at, kind |-> A.kind]

TryAllocate ==
  /\ ~mgr_.fatal
  /\ \E size \in AllocSizes, device \in DeviceArgs, debug_env \in DebugEnvs(mgr_),
        oth \in Others :
     \E o \in OutcomesAt(mgr_, mgr_.blocks, device, size) :
       AllocateReturns(size, device,
                       try_allocate(mgr_, size, device, o, "user", debug_env, oth))
  /\ UNCHANGED <<ws, scopes, pinvars, thrvars>>

(* the bytes a deallocate call adds to free_ *)
Credits(M, ptr, recache, unloading) ==
  IF ptr = NULL \/ ~M.cub_allocator_ \/ unloading THEN 0
  ELSE SizeDeallocated(M.blocks, ptr, recache)

(* what a deallocate call did: the bytes DeviceFree reported (size), and whether
   it took the shared lock of line 297 and called DeviceFree at line 298 *)
DeallocateReturns(ptr, device, mode) ==
  /\ mgr_' = Exit(deallocate(mgr_, ptr, device, Recache(mode), Unloading(mode)))
  /\ last' = [op |-> "deallocate",
              size |-> Credits(mgr_, ptr, Recache(mode), Unloading(mode)),
              ptr |-> ptr, device |-> device, unloading |-> Unloading(mode),
              locked |-> ~SkipsFree(mgr_, ptr, Unloading(mode)),
              freed |-> ~SkipsFree(mgr_, ptr, Unloading(mode))]

(* deallocate of nullptr or of a pointer try_allocate gave the caller *)
Deallocate ==
  /\ ~mgr_.fatal
  /\ \E ptr \in {NULL} \cup {p \in Ptrs : mgr_.blocks[p].own = "user"} :
     \E mode \in FreeModes(mgr_, ptr) :
       DeallocateReturns(ptr, IF ptr = NULL THEN 0 ELSE mgr_.blocks[ptr].dev, mode)
  /\ UNCHANGED <<ws, scopes, pinvars, thrvars>>

(* what a GetInfo call wrote to *free_mem and *total_mem *)
InfoReturns(G, with_update) ==
  /\ mgr_' = Exit(G.M)
  /\ last' = [op |-> "GetInfo", with_update |-> with_update,
              free_mem |-> G.free_mem, total_mem |-> G.total_mem]

GetInfoCall ==
  /\ ~mgr_.fatal
  /\ \E with_update \in BOOLEAN, oth \in Others :
       InfoReturns(GetInfo(mgr_, with_update, oth), with_update)
  /\ UNCHANGED <<ws, scopes, pinvars, thrvars>>

UpdateDevInfo ==
  /\ ~mgr_.fatal
  /\ \E device \in Devices, oth \in Others :
       mgr_' = Exit(update_dev_info(mgr_, device, oth))
  /\ last' = Other
  /\ UNCHANGED <<ws, scopes, pinvars, thrvars>>

WorkspaceReturns(op, size, R) ==
  /\ R.valid
  /\ mgr_' = Exit(R.M)
  /\ ws' = R.W
  /\ last' = Call(op, size, ws.size_,
                  [Plain EXCEPT !.status = R.status, !.released = R.released,
                                !.allocated = R.allocated, !.queried = R.queried,
                                !.avail = R.avail])

WsTryReserve ==
  /\ ~mgr_.fatal
  /\ \E size \in WsSizes, device \in DeviceArgs :
     \E mode \in ModesIf(MustGrow(size, ws), mgr_, ws.ptr_),
        debug_env \in DebugEnvsIf(MustGrow(size, ws), mgr_),
        oth \in OthersIf(MustGrow(size, ws)) :
     \E o \in OutcomesIf(MustGrow(size, ws), mgr_,
                         release(mgr_, ws, Recache(mode), Unloading(mode)).M.blocks,
                         Adopt(ws, device).device_, size) :
       WorkspaceReturns("try_reserve", size,
                        try_reserve(mgr_, ws, size, device, o, Recache(mode),
                                    Unloading(mode), debug_env, oth))
  /\ UNCHANGED <<scopes, pinvars, thrvars>>

WsSafeReserve ==
  /\ ~mgr_.fatal
  /\ \E size \in WsSizes, device \in DeviceArgs :
     \E mode \in ModesIf(~NothingToDo(size, ws.size_), mgr_, ws.ptr_),
        debug_env \in DebugEnvsIf(~NothingToDo(size, ws.size_), mgr_),
        oth \in OthersIf(~NothingToDo(size, ws.size_)) :
     \E o \in OutcomesIf(~NothingToDo(size, ws.size_), mgr_,
                         release(mgr_, ws, Recache(mode), Unloading(mode)).M.blocks,
                         Adopt(ws, device).device_, size) :
       WorkspaceReturns("safe_reserve", size,
                        safe_reserve(mgr_, ws, size, device, o, Recache(mode),
                                     Unloading(mode), debug_env, oth))
  /\ UNCHANGED <<scopes, pinvars, thrvars>>

(* reserve is called on a Workspace that holds nothing *)
WsReserve ==
  /\ ~mgr_.fatal /\ ws.ptr_ = NULL
  /\ \E size \in WsSizes, device \in DeviceArgs, debug_env \in DebugEnvs(mgr_),
        oth \in Others :
     \E o \in OutcomesAt(mgr_, mgr_.blocks, Adopt(ws, device).device_, size) :
       WorkspaceReturns("reserve", size,
                        reserve(mgr_, ws, size, device, o, debug_env, oth))
  /\ UNCHANGED <<scopes, pinvars, thrvars>>

WsRelease ==
  /\ ~mgr_.fatal
  /\ \E mode \in FreeModes(mgr_, ws.ptr_) :
       /\ mgr_' = Exit(release(mgr_, ws, Recache(mode), Unloading(mode)).M)
       /\ ws' = release(mgr_, ws, Recache(mode), Unloading(mode)).W
  /\ last' = Call("release", 0, ws.size_, [Plain EXCEPT !.released = TRUE])
  /\ UNCHANGED <<scopes, pinvars, thrvars>>

(* calls on the Manager *)
NextMgr ==
  \/ ScopeCtor \/ ScopeDtor
  \/ TryAllocate \/ Deallocate \/ GetInfoCall \/ UpdateDevInfo
SpecMgr == Init /\ [][NextMgr]_vars

(* calls on the Workspace, inside and outside a Scope *)
Next ==
  \/ ScopeCtor \/ ScopeDtor
  \/ WsTryReserve \/ WsSafeReserve \/ WsReserve \/ WsRelease
Spec == Init /\ [][Next]_vars

(* ------------------------------------------------------------------ *)
(* Properties of the Manager, checked under SpecMgr                     *)
(* ------------------------------------------------------------------ *)

(* C2: for every device d, DevInfo free_ <= total_ in every state reached by a
   single-threaded sequence of init, try_allocate, deallocate, GetInfo and
   update_dev_info calls, a deallocate that credits bytes after a refresh
   included. *)
C2_FreeAtMostTotal ==
  \A d \in Devices : mgr_.dev_info_[d].free_ <= mgr_.dev_info_[d].total_

(* a deallocate credited bytes on top of a refreshed estimate and free_ reached
   total_ *)
C2_Witness ==
  /\ last.op = "deallocate" /\ last.size > 0
  /\ \E d \in Devices : /\ mgr_.hist[d].net > 0
                        /\ mgr_.dev_info_[d].total_ = PhysTotal
                        /\ mgr_.dev_info_[d].free_ = mgr_.dev_info_[d].total_

Clamp(x, lo, hi) == IF x < lo THEN lo ELSE IF x > hi THEN hi ELSE x

(* C4: as long as no update_dev_info runs on a device, its free_ is the value
   the last refresh left (initially 0), minus the bytes the allocations since
   then freshly carved, plus the bytes the frees since then returned, clamped
   to [0, total_]. *)
C4_FreeIsLedger ==
  \A d \in Devices :
    mgr_.dev_info_[d].free_ =
      Clamp(mgr_.hist[d].base + mgr_.hist[d].net, 0, mgr_.dev_info_[d].total_)

(* a deallocate credited bytes while the carved bytes since the last refresh
   still outweigh the returned ones *)
C4_Witness ==
  /\ last.op = "deallocate" /\ last.size > 0
  /\ \E d \in Devices : /\ mgr_.hist[d].net < 0
                        /\ mgr_.dev_info_[d].free_ = mgr_.hist[d].base + mgr_.hist[d].net

(* C5: whenever try_allocate reaches cub_allocator_->DeviceAllocate, the Manager
   is initialized and the cub handle is set, after any sequence of Scope
   constructions, Scope destructions and try_allocate calls. *)
C5_InitializedAtDeviceAllocate ==
  (last.op = "try_allocate" /\ last.reached) => (last.init_at /\ last.cub_at)

(* ------------------------------------------------------------------ *)
(* Properties of the Workspace, checked under Spec                      *)
(* ------------------------------------------------------------------ *)

(* C7: once the Workspace holds memory, a try_reserve of a size not above the
   held size returns true, calls neither release nor try_allocate, and leaves
   ptr_, size_ and device_ (and the Manager) as they were. *)
C7_TryReserveKeeps ==
  [][(last'.op = "try_reserve" /\ ws.ptr_ # NULL /\ last'.size <= ws.size_)
       => (/\ last'.ret
           /\ ~last'.released /\ ~last'.allocated
           /\ ws' = ws
           /\ mgr_' = mgr_)]_vars

(* a try_reserve asked for less than the Workspace held *)
C7_Witness ==
  /\ last.op = "try_reserve" /\ last.size < last.held
  /\ last.ret /\ ~last.released /\ ~last.allocated
  /\ ws.ptr_ # NULL /\ ws.size_ = last.held

(* C8: a Workspace whose ptr_ is null has size_ 0, and a try_reserve whose
   allocation fails returns false after it released what was held, leaving
   ptr_ null and size_ 0. *)
C8_EmptyWhenNull ==
  /\ ws.ptr_ = NULL => ws.size_ = 0
  /\ (last.op = "try_reserve" /\ last.allocated /\ ~last.ret)
       => (/\ last.released
           /\ ws.ptr_ = NULL /\ ws.size_ = 0
           /\ \A p \in Ptrs : mgr_.blocks[p].own # "ws")

(* a try_reserve on a Workspace holding memory failed in DeviceAllocate *)
C8_Witness ==
  /\ last.op = "try_reserve" /\ last.allocated /\ ~last.ret
  /\ last.held > 0 /\ ~mgr_.fatal
  /\ ws.ptr_ = NULL

(* C9 as stated: a safe_reserve of more than is held aborts exactly when
   size - size_ exceeds the aligned free bytes GetInfo reported, and otherwise
   releases, reserves size bytes and returns true with size_ = size. *)
C9_AbortsOnlyWhenShort ==
  [][(last'.op = "safe_reserve" /\ last'.size > ws.size_)
       => (/\ mgr_'.fatal <=> (last'.size - ws.size_ > last'.avail)
           /\ ~mgr_'.fatal
                => (last'.released /\ last'.ret /\ ws'.size_ = last'.size))]_vars

(* C9: a safe_reserve of more than is held aborts before any release when the
   Manager has no cub handle or size - size_ exceeds the aligned free bytes
   GetInfo reported; otherwise it releases what is held and calls reserve, and
   either that aborts or the call returns true with ptr_ set and size_ = size. *)
C9_AbortsWhenShortOrReserveFails ==
  [][(last'.op = "safe_reserve" /\ last'.size > ws.size_)
       => (/\ (~mgr_.cub_allocator_ \/ last'.size - ws.size_ > last'.avail)
                => (mgr_'.fatal /\ ~last'.released /\ ~last'.allocated /\ ws' = ws)
           /\ (mgr_.cub_allocator_ /\ last'.size - ws.size_ <= last'.avail)
                => (/\ last'.released
                    /\ \/ mgr_'.fatal /\ ws'.ptr_ = NULL
                       \/ /\ ~mgr_'.fatal /\ last'.ret
                          /\ ws'.ptr_ # NULL /\ ws'.size_ = last'.size
                          /\ mgr_'.blocks[ws'.ptr_].st = "live"
                          /\ mgr_'.blocks[ws'.ptr_].bytes >= last'.size))]_vars

(* a safe_reserve grew a Workspace that held memory *)
C9_Witness ==
  /\ last.op = "safe_reserve" /\ last.held > 0 /\ last.size > last.held
  /\ last.queried /\ last.released /\ last.ret /\ ~mgr_.fatal
  /\ ws.size_ = last.size

(* C10: a safe_reserve of a size not above the held size returns false without
   calling GetInfo, release or try_allocate, and leaves ptr_, size_, device_ and
   the Manager (its DevInfo included) as they were. *)
C10_SafeReserveNoOp ==
  [][(last'.op = "safe_reserve" /\ last'.size <= ws.size_)
       => (/\ ~last'.ret
           /\ ~last'.queried /\ ~last'.released /\ ~last'.allocated
           /\ ws' = ws
           /\ mgr_' = mgr_)]_vars

(* a safe_reserve asked for exactly what the Workspace held *)
C10_Witness ==
  /\ last.op = "safe_reserve" /\ last.size = last.held /\ last.size > 0
  /\ ~last.ret /\ ~last.queried
  /\ ws.ptr_ # NULL

(* ------------------------------------------------------------------ *)
(* Single-threaded calls on the process-wide pinned pool                *)
(* ------------------------------------------------------------------ *)
PinSizes == {0, 64, 100, 200}
PinDevices == 0 .. NumDevices        \* one index past the device count included
PinGroups == 0 .. MaxGroup

PinnedBufferReturns(size, device, group, Q) ==
  /\ pin' = Q
  /\ pcall' = [op |-> "pinned_buffer", size |-> size, device |-> device,
               group |-> group, ret |-> DeviceAt(Q, device, group)]

PinnedBuffer ==
  /\ ~pin.fatal
  /\ \E size \in PinSizes, device \in PinDevices, group \in PinGroups :
     \E a \in HostOutcomes(pin, size, device, group) :
       PinnedBufferReturns(size, device, group,
                           pinned_buffer(pin, size, device, group, a))
  /\ UNCHANGED <<mgr_, ws, scopes, last, thrvars>>

NextPin == PinnedBuffer
SpecPin == Init /\ [][NextPin]_vars

(* the entries the vectors hold *)
Entries(P) ==
  {e \in PinDevices \X PinGroups : ~Resized(P, e[1], e[2])}

(* what every returning call leaves for its entry: the recorded size is at
   least max(size, INITIAL_PINNED_BYTES), is the size of the host buffer held,
   is not below what it was, and the pointer returned is that buffer's alias *)
PinnedPost(P, Q, size, device, group, ret) ==
  /\ SizeAt(Q, device, group) >= Max(size, INITIAL_PINNED_BYTES)
  /\ HostAt(Q, device, group) # NULL
  /\ SizeAt(Q, device, group) = Q.host[HostAt(Q, device, group)]
  /\ <<device, group>> \in Entries(P) => SizeAt(Q, device, group) >= SizeAt(P, device, group)
  /\ ret = DevAlias(HostAt(Q, device, group))
  /\ DeviceAt(Q, device, group) = ret
  /\ \A e \in Entries(P) \ {<<device, group>>} :
       /\ SizeAt(Q, e[1], e[2]) = SizeAt(P, e[1], e[2])
       /\ HostAt(Q, e[1], e[2]) = HostAt(P, e[1], e[2])
       /\ DeviceAt(Q, e[1], e[2]) = DeviceAt(P, e[1], e[2])
       /\ HostAt(P, e[1], e[2]) # NULL
            => Q.host[HostAt(P, e[1], e[2])] = P.host[HostAt(P, e[1], e[2])]

(* the call returned the pointer it had, and no host buffer was freed or made *)
PinnedKept(P, Q, device, group, ret) ==
  /\ ret = DeviceAt(P, device, group)
  /\ Q = P

(* the call freed the entry's host buffer, if it had one, and made a new one of
   new_size bytes, at an address that may be the one just freed *)
PinnedReplaced(P, Q, new_size, device, group, old_host) ==
  /\ old_host # NULL /\ HostAt(Q, device, group) # old_host => Q.host[old_host] = 0
  /\ Q.host[HostAt(Q, device, group)] = new_size
  /\ SizeAt(Q, device, group) = new_size
  /\ \A a \in HostAddrs \ {old_host, HostAt(Q, device, group)} :
       Q.host[a] = P.host[a]

(* C6 as stated: for an entry of the pool, a request of a size not above the
   entry's recorded size returns the same device pointer and frees or allocates
   no host buffer; a request above it frees the old buffer, allocates a new one
   and returns its alias; after every call the recorded size is at least
   max(size, INITIAL_PINNED_BYTES), is the size of the buffer held, and has not
   decreased. *)
C6_KeepsUnlessLarger ==
  [][(pcall'.op = "pinned_buffer" /\ ~pin'.fatal
        /\ <<pcall'.device, pcall'.group>> \in Entries(pin))
       => (/\ pcall'.size <= SizeAt(pin, pcall'.device, pcall'.group)
                => PinnedKept(pin, pin', pcall'.device, pcall'.group, pcall'.ret)
           /\ pcall'.size > SizeAt(pin, pcall'.device, pcall'.group)
                => PinnedReplaced(pin, pin', Max(pcall'.size, INITIAL_PINNED_BYTES),
                                  pcall'.device, pcall'.group,
                                  HostAt(pin, pcall'.device, pcall'.group))
           /\ PinnedPost(pin, pin', pcall'.size, pcall'.device, pcall'.group,
                         pcall'.ret))]_vars

(* C6: a request on an entry the pool holds, of a size that raised to at least
   INITIAL_PINNED_BYTES is not above the entry's recorded size, returns the same
   device pointer and frees or allocates no host buffer; any other request (a
   raised size above the recorded one, or an entry made by this call) frees the
   old host buffer if the entry had one, allocates a new one of the raised size
   and returns its alias; after every call the recorded size is at least
   max(size, INITIAL_PINNED_BYTES), is the size of the buffer held, and has not
   decreased. *)
C6_KeepsUnlessRaisedLarger ==
  [][(pcall'.op = "pinned_buffer" /\ ~pin'.fatal)
       => (/\ IF /\ <<pcall'.device, pcall'.group>> \in Entries(pin)
                 /\ Max(pcall'.size, INITIAL_PINNED_BYTES)
                      <= SizeAt(pin, pcall'.device, pcall'.group)
              THEN PinnedKept(pin, pin', pcall'.device, pcall'.group, pcall'.ret)
              ELSE PinnedReplaced(
                     resize_buffers(pin, pcall'.device, pcall'.group), pin',
                     Max(pcall'.size, INITIAL_PINNED_BYTES),
                     pcall'.device, pcall'.group,
                     HostAt(resize_buffers(pin, pcall'.device, pcall'.group),
                            pcall'.device, pcall'.group))
           /\ PinnedPost(pin, pin', pcall'.size, pcall'.device, pcall'.group,
                         pcall'.ret))]_vars

(* a request below the recorded size of an entry that had grown before *)
C6_Witness ==
  /\ pcall.op = "pinned_buffer" /\ ~pin.fatal
  /\ pcall.size = 100
  /\ SizeAt(pin, pcall.device, pcall.group) = 200
  /\ pcall.ret = DevAlias(HostAt(pin, pcall.device, pcall.group))

(* ------------------------------------------------------------------ *)
(* Threads.  Every thread makes one call at a time; a call is cut where *)
(* another thread can get in between: at the lock, at each driver or    *)
(* cub call, and between the read and the write of a plain field.       *)
(* A Scope was constructed before the threads started.                  *)
(* ------------------------------------------------------------------ *)
ConcSizes == {64}               \* request sizes of try_allocate
ConcPinSizes == {64, 100}       \* request sizes of pinned_buffer
ConcThreadPinSizes == {64, 100} \* request sizes of thread_pinned_buffer
ConcGroups == {0}
NoOthers == [d \in Devices |-> 0]

(* a size_t value *)
SizeT(x) == x % Pow(2, SIZE_BITS)

(* the Manager a Scope over gpus leaves *)
Scoped(gpus) == Exit(ScopeConstruct(Manager0, gpus, FALSE, FALSE, NoOthers))

InitLock ==
  /\ mgr_ = Scoped(<<0>>)
  /\ ws = Workspace0
  /\ scopes = 1
  /\ last = Other
  /\ PinInit
  /\ ThreadsInit

(* the Scope named device 0, or no device at all *)
InitConc ==
  /\ mgr_ \in {Scoped(<<0>>), Scoped(<< >>)}
  /\ ws = Workspace0
  /\ scopes = 1
  /\ last = Other
  /\ PinInit
  /\ ThreadsInit

seqvars == <<ws, scopes, last, pcall, gpumem>>

(* a thread starts a call; an estimate that has left its range is not followed
   through further calls *)
Idle(t) ==
  /\ pc[t] = "idle" /\ ~mgr_.fatal /\ ~pin.fatal
  /\ \A d \in Devices : mgr_.dev_info_[d].free_ <= mgr_.dev_info_[d].total_
At(t, l) == pc[t] = l /\ ~mgr_.fatal /\ ~pin.fatal
Goto(t, l) == pc' = [pc EXCEPT ![t] = l]

(* the locals are dead once the call returns *)
Return(L) ==
  [Loc0 EXCEPT !.ptrs = L.ptrs, !.tsizes = L.tsizes, !.thost = L.thost, !.tdev = L.tdev]

(* the address cudaHostAlloc returns: the lowest that holds no buffer (which
   one it is plays no part between threads), NULL when there is none *)
LowestFree(P) ==
  IF \A h \in HostAddrs : P.host[h] # 0 THEN {NULL}
  ELSE {h \in HostAddrs : P.host[h] = 0 /\ \A k \in HostAddrs : k < h => P.host[k] # 0}

(* shared_lock<shared_mutex> lock(mutex_): granted unless held exclusively *)
LockShared(t) == ~rw.writer /\ rw' = [rw EXCEPT !.readers = @ \cup {t}]
UnlockShared(t) == rw' = [rw EXCEPT !.readers = @ \ {t}]

(* a unique_lock on read_write_mutex() taken outside this file *)
WriterLock ==
  /\ rw.readers = {} /\ ~rw.writer
  /\ rw' = [rw EXCEPT !.writer = TRUE]
  /\ UNCHANGED <<mgr_, pin, pc, loc, seqvars>>

WriterUnlock ==
  /\ rw.writer
  /\ rw' = [rw EXCEPT !.writer = FALSE]
  /\ UNCHANGED <<mgr_, pin, pc, loc, seqvars>>

(* try_allocate, lines 224-234: the Manager is initialized, the lock is taken *)
AllocLock(t) ==
  /\ Idle(t) /\ mgr_.initialized_
  /\ LockShared(t)
  /\ \E size \in ConcSizes : loc' = [loc EXCEPT ![t].size = size]
  /\ Goto(t, "allocate")
  /\ UNCHANGED <<mgr_, pin, seqvars>>

(* line 238 *)
AllocDeviceAllocate(t) ==
  /\ At(t, "allocate")
  /\ \E o \in AllocOutcomes(mgr_.blocks, 0, loc[t].size) :
       /\ LastError(o) => mgr_.dev_info_[0].flush_count_ < MaxFlush
       /\ mgr_' = DeviceAllocate(mgr_, loc[t].size, 0, o, "user")
       /\ loc' = [loc EXCEPT ![t].ptr = o.p,
                             ![t].size_allocated = SizeAllocated(o, loc[t].size),
                             ![t].failed = LastError(o),
                             ![t].ptrs = IF Succeeded(o) THEN @ \cup {o.p} ELSE @]
       /\ Goto(t, IF Succeeded(o) /\ SizeAllocated(o, loc[t].size) > 0
                  THEN "threshold" ELSE "unlock")
  /\ UNCHANGED <<pin, rw, seqvars>>

(* line 241: free_ is read and compared with the threshold *)
AllocThreshold(t) ==
  /\ At(t, "threshold")
  /\ Goto(t, IF BelowThreshold(mgr_.dev_info_[0].free_, mgr_.update_thresholds_[0])
             THEN "refresh_decay" ELSE "short")
  /\ UNCHANGED <<mgr_, pin, loc, rw, seqvars>>

(* lines 242-243 *)
AllocRefreshDecay(t) ==
  /\ At(t, "refresh_decay") /\ mgr_.decays[0] < MaxDecays
  /\ mgr_' = Exit([update_dev_info(mgr_, 0, NoOthers)
                     EXCEPT !.update_thresholds_[0] = DecayThreshold(@),
                            !.decays[0] = @ + 1])
  /\ Goto(t, "unlock")
  /\ UNCHANGED <<pin, loc, rw, seqvars>>

(* line 244: free_ is read again and compared with size_allocated *)
AllocShort(t) ==
  /\ At(t, "short")
  /\ Goto(t, IF ShortOfFree(mgr_.dev_info_[0].free_, loc[t].size_allocated)
             THEN "refresh" ELSE "debit_read")
  /\ UNCHANGED <<mgr_, pin, loc, rw, seqvars>>

(* line 245 *)
AllocRefresh(t) ==
  /\ At(t, "refresh")
  /\ mgr_' = Exit(update_dev_info(mgr_, 0, NoOthers))
  /\ Goto(t, "unlock")
  /\ UNCHANGED <<pin, loc, rw, seqvars>>

(* line 247, free_ -= size_allocated: the load *)
AllocDebitRead(t) ==
  /\ At(t, "debit_read")
  /\ loc' = [loc EXCEPT ![t].r = mgr_.dev_info_[0].free_]
  /\ Goto(t, "debit_write")
  /\ UNCHANGED <<mgr_, pin, rw, seqvars>>

(* line 247, free_ -= size_allocated: the store *)
AllocDebitWrite(t) ==
  /\ At(t, "debit_write")
  /\ mgr_' = [mgr_ EXCEPT !.dev_info_[0].free_ = SizeT(Debit(loc[t].r, loc[t].size_allocated))]
  /\ Goto(t, "unlock")
  /\ UNCHANGED <<pin, loc, rw, seqvars>>

(* line 251: the lock goes out of scope; lines 252-282 follow an error *)
AllocUnlock(t) ==
  /\ At(t, "unlock")
  /\ UnlockShared(t)
  /\ IF loc[t].failed
     THEN Goto(t, "after_error") /\ UNCHANGED loc
     ELSE Goto(t, "idle") /\ loc' = [loc EXCEPT ![t] = Return(@)]
  /\ UNCHANGED <<mgr_, pin, seqvars>>

AllocAfterError(t) ==
  /\ At(t, "after_error")
  /\ mgr_' = Exit(RefreshAfterError(mgr_, 0, TRUE, NoOthers))
  /\ Goto(t, "idle") /\ loc' = [loc EXCEPT ![t] = Return(@)]
  /\ UNCHANGED <<pin, rw, seqvars>>

(* deallocate, lines 286-297: the pointer is one the thread holds *)
FreeLock(t) ==
  /\ Idle(t) /\ mgr_.cub_allocator_
  /\ LockShared(t)
  /\ \E ptr \in loc[t].ptrs : loc' = [loc EXCEPT ![t].ptr = ptr, ![t].ptrs = @ \ {ptr}]
  /\ Goto(t, "device_free")
  /\ UNCHANGED <<mgr_, pin, seqvars>>

(* line 298 *)
FreeDeviceFree(t) ==
  /\ At(t, "device_free")
  /\ \E recache \in BOOLEAN :
       /\ mgr_' = DeviceFree(mgr_, loc[t].ptr, 0, recache)
       /\ loc' = [loc EXCEPT ![t].size_allocated =
                               SizeDeallocated(mgr_.blocks, loc[t].ptr, recache)]
       /\ Goto(t, IF SizeDeallocated(mgr_.blocks, loc[t].ptr, recache) > 0
                  THEN "credit_read" ELSE "free_unlock")
  /\ UNCHANGED <<pin, rw, seqvars>>

(* line 300, free_ += size_deallocated: the load *)
FreeCreditRead(t) ==
  /\ At(t, "credit_read")
  /\ loc' = [loc EXCEPT ![t].r = mgr_.dev_info_[0].free_]
  /\ Goto(t, "credit_write")
  /\ UNCHANGED <<mgr_, pin, rw, seqvars>>

(* line 300, free_ += size_deallocated: the store *)
FreeCreditWrite(t) ==
  /\ At(t, "credit_write")
  /\ mgr_' = [mgr_ EXCEPT !.dev_info_[0].free_ = SizeT(Credit(loc[t].r, loc[t].size_allocated))]
  /\ Goto(t, "free_unlock")
  /\ UNCHANGED <<pin, loc, rw, seqvars>>

FreeUnlock(t) ==
  /\ At(t, "free_unlock")
  /\ UnlockShared(t)
  /\ Goto(t, "idle") /\ loc' = [loc EXCEPT ![t] = Return(@)]
  /\ UNCHANGED <<mgr_, pin, seqvars>>

(* pinned_buffer, lines 153-156: the vectors are grown and the size compared,
   all outside the lock *)
PinEnter(t) ==
  /\ Idle(t)
  /\ \E size \in ConcPinSizes, group \in ConcGroups :
       /\ pin' = resize_buffers(pin, 0, group)
       /\ IF MustReallocate(RaisedSize(size), SizeAt(resize_buffers(pin, 0, group), 0, group),
                            Resized(pin, 0, group))
          THEN /\ loc' = [loc EXCEPT ![t].size = RaisedSize(size), ![t].group = group,
                                     ![t].resized = Resized(pin, 0, group)]
               /\ Goto(t, "pin_lock")
          ELSE UNCHANGED <<loc, pc>>
  /\ UNCHANGED <<mgr_, rw, seqvars>>

(* line 158 *)
PinLock(t) ==
  /\ At(t, "pin_lock")
  /\ LockShared(t)
  /\ Goto(t, IF ~loc[t].resized THEN "pin_free" ELSE "pin_alloc")
  /\ UNCHANGED <<mgr_, pin, loc, seqvars>>

(* line 160 *)
PinFree(t) ==
  /\ At(t, "pin_free")
  /\ pin' = cudaFreeHost(pin, HostAt(pin, 0, loc[t].group))
  /\ Goto(t, "pin_alloc")
  /\ UNCHANGED <<mgr_, loc, rw, seqvars>>

(* lines 162-165 *)
PinAlloc(t) ==
  /\ At(t, "pin_alloc")
  /\ \E a \in LowestFree(pin) :
       pin' = Remap(pin, 0, loc[t].group, loc[t].size, a)
  /\ Goto(t, "pin_unlock")
  /\ UNCHANGED <<mgr_, loc, rw, seqvars>>

(* line 167 *)
PinUnlock(t) ==
  /\ At(t, "pin_unlock")
  /\ UnlockShared(t)
  /\ Goto(t, "idle") /\ loc' = [loc EXCEPT ![t] = Return(@)]
  /\ UNCHANGED <<mgr_, pin, seqvars>>

(* thread_pinned_buffer, lines 124-137: the thread's own vector is grown and
   the size compared *)
ThreadPinEnter(t) ==
  /\ Idle(t)
  /\ \E size \in ConcThreadPinSizes, group \in ConcGroups :
       LET sizes == IF group + 1 > Len(loc[t].tsizes)
                    THEN Grow(loc[t].tsizes, group + 1, 0) ELSE loc[t].tsizes
       IN  IF size > sizes[group + 1]
           THEN /\ loc' = [loc EXCEPT ![t].tsizes = sizes, ![t].size = size,
                                      ![t].group = group]
                /\ Goto(t, "tpin_alloc")
           ELSE /\ loc' = [loc EXCEPT ![t].tsizes = sizes]
                /\ UNCHANGED pc
  /\ UNCHANGED <<mgr_, pin, rw, seqvars>>

(* lines 138-147: cudaHostAlloc and the alias, no lock held; emplace keeps the
   element a key already has, and the buffer just made then goes to the cleaner *)
ThreadPinAlloc(t) ==
  /\ At(t, "tpin_alloc")
  /\ \E a \in LowestFree(pin) :
       /\ pin' = IF a = NULL THEN [pin EXCEPT !.fatal = TRUE]
                 ELSE [pin EXCEPT !.host[a] = loc[t].size]
       /\ IF loc[t].group \in DOMAIN loc[t].thost
          THEN /\ loc' = [loc EXCEPT ![t].ptr = a]
               /\ Goto(t, "tpin_clean")
          ELSE /\ loc' = [loc EXCEPT
                      ![t] = Return([@ EXCEPT
                               !.thost = [g \in DOMAIN @ \cup {loc[t].group} |->
                                            IF g = loc[t].group THEN a ELSE @[g]],
                               !.tdev = [g \in DOMAIN @ \cup {loc[t].group} |->
                                           IF g = loc[t].group THEN DevAlias(a) ELSE @[g]],
                               !.tsizes[loc[t].group + 1] = loc[t].size])]
               /\ Goto(t, "idle")
  /\ UNCHANGED <<mgr_, rw, seqvars>>

(* lines 125-128, host_buffer_cleaner: cudaFreeHost under the shared lock; then
   line 147 *)
ThreadPinClean(t) ==
  /\ At(t, "tpin_clean")
  /\ ~rw.writer
  /\ pin' = cudaFreeHost(pin, loc[t].ptr)
  /\ loc' = [loc EXCEPT ![t] = Return([@ EXCEPT !.tsizes[loc[t].group + 1] = loc[t].size])]
  /\ Goto(t, "idle")
  /\ UNCHANGED <<mgr_, rw, seqvars>>

(* lines 238-283 as one step: for the lock only the ends of the section count.
   Every block of these calls is of a bin, which cub puts back in its cache. *)
AllocBody(t) ==
  /\ At(t, "allocate")
  /\ \E o \in AllocOutcomes(mgr_.blocks, 0, loc[t].size) :
       /\ TryAllocateFrom(mgr_, loc[t].size, 0, o, "user", NoOthers).valid
       /\ mgr_' = Exit(TryAllocateFrom(mgr_, loc[t].size, 0, o, "user", NoOthers).M)
       /\ loc' = [loc EXCEPT ![t] = Return([@ EXCEPT !.ptrs = IF Succeeded(o)
                                                              THEN @ \cup {o.p} ELSE @])]
  /\ UnlockShared(t)
  /\ Goto(t, "idle")
  /\ UNCHANGED <<pin, seqvars>>

(* lines 298-302 as one step *)
FreeBody(t) ==
  /\ At(t, "device_free")
  /\ mgr_' = Exit(Credited(DeviceFree(mgr_, loc[t].ptr, 0, TRUE), 0,
                           SizeDeallocated(mgr_.blocks, loc[t].ptr, TRUE)))
  /\ loc' = [loc EXCEPT ![t] = Return(@)]
  /\ UnlockShared(t)
  /\ Goto(t, "idle")
  /\ UNCHANGED <<pin, seqvars>>

(* threads in try_allocate and deallocate, step by step *)
NextConc ==
  \/ WriterLock \/ WriterUnlock
  \/ \E t \in Threads :
       \/ AllocLock(t) \/ AllocDeviceAllocate(t) \/ AllocThreshold(t)
       \/ AllocRefreshDecay(t) \/ AllocShort(t) \/ AllocRefresh(t)
       \/ AllocDebitRead(t) \/ AllocDebitWrite(t) \/ AllocUnlock(t)
       \/ AllocAfterError(t)
       \/ FreeLock(t) \/ FreeDeviceFree(t) \/ FreeCreditRead(t)
       \/ FreeCreditWrite(t) \/ FreeUnlock(t)
SpecConc == InitConc /\ [][NextConc]_vars

(* threads in the pinned pools, step by step, among threads in try_allocate and
   deallocate and holders of the exclusive lock *)
NextLock ==
  \/ WriterLock \/ WriterUnlock
  \/ \E t \in Threads :
       \/ AllocLock(t) \/ AllocBody(t)
       \/ FreeLock(t) \/ FreeBody(t)
       \/ PinEnter(t) \/ PinLock(t) \/ PinFree(t) \/ PinAlloc(t) \/ PinUnlock(t)
       \/ ThreadPinEnter(t) \/ ThreadPinAlloc(t) \/ ThreadPinClean(t)
SpecLock == InitLock /\ [][NextLock]_vars

(* where a thread is inside the locked section of try_allocate or deallocate *)
LockedSection ==
  {"allocate", "threshold", "refresh_decay", "short", "refresh", "debit_read",
   "debit_write", "unlock", "device_free", "credit_read", "credit_write",
   "free_unlock"}
(* where a thread is freeing, allocating or remapping a pinned buffer *)
ResizeSection == {"pin_free", "pin_alloc", "tpin_alloc"}

(* C1: no thread is inside the free-old / allocate-new / remap section of a
   pinned-buffer resize (process-wide or thread-local) while another thread is
   inside the locked section of try_allocate or deallocate, or inside another
   pinned-buffer resize. *)
C1_ResizeIsExclusive ==
  \A t \in Threads :
    pc[t] \in ResizeSection
      => \A u \in Threads \ {t} : pc[u] \notin LockedSection \cup ResizeSection

(* C3: under every interleaving of try_allocate and deallocate calls by the
   threads, 0 <= free_ <= total_ for the device and, once total_ has been read
   from the driver, the bytes of the blocks outstanding do not exceed it. *)
C3_EstimateStaysInRange ==
  \A d \in Devices :
    /\ 0 <= mgr_.dev_info_[d].free_
    /\ mgr_.dev_info_[d].free_ <= mgr_.dev_info_[d].total_
    /\ mgr_.dev_info_[d].total_ # 0
         => SumBytes(mgr_.blocks, {p \in Ptrs : /\ mgr_.blocks[p].st = "live"
                                               /\ mgr_.blocks[p].dev = d})
              <= mgr_.dev_info_[d].total_

(* ------------------------------------------------------------------ *)
(* GetInfo on any estimate and any cache.  The Manager starts in a state *)
(* threads can leave it in: free_ anywhere up to total_, whatever the    *)
(* blocks cub holds live or cached.                                      *)
(* ------------------------------------------------------------------ *)
InfoFree == {0, 64, 128, 192, PhysTotal}
InfoBlocks ==
  [Ptrs -> {NoBlock} \cup
           {[st |-> st, dev |-> 0, bytes |-> b, own |-> IF st = "live" THEN "user" ELSE "none"] :
              st \in {"live", "cached"}, b \in {64, 128}}]

(* the Manager a Scope over device 0 left, with estimate free and heap B *)
InfoManager(free, B) ==
  [Scoped(<<0>>) EXCEPT !.dev_info_[0].free_ = free, !.blocks = B,
                        !.hist[0] = [base |-> free, net |-> 0]]

InitInfo ==
  /\ mgr_ \in {InfoManager(free, B) : free \in InfoFree, B \in InfoBlocks}
  /\ ws = Workspace0
  /\ scopes = 1
  /\ last = Other
  /\ PinInit
  /\ ThreadsInit

NextInfo == GetInfoCall
SpecInfo == InitInfo /\ [][NextInfo]_vars

(* C11: what GetInfo reports is total_ as the total and free_ plus the bytes
   cub holds cached for the device, cut to total_, as the free; the reported
   free never exceeds the reported total. *)
C11_ReportIsClampedSum ==
  last.op = "GetInfo" /\ ~mgr_.fatal
    => /\ last.total_mem = mgr_.dev_info_[mgr_.current_device].total_
       /\ last.free_mem =
            Min(mgr_.dev_info_[mgr_.current_device].free_
                  + CachedFree(mgr_.blocks, mgr_.current_device),
                mgr_.dev_info_[mgr_.current_device].total_)
       /\ last.free_mem <= last.total_mem

(* a GetInfo without update on an estimate that with the cached bytes exceeds
   total_: the report was cut *)
C11_Witness ==
  /\ last.op = "GetInfo" /\ ~last.with_update /\ ~mgr_.fatal
  /\ mgr_.dev_info_[0].free_ + CachedFree(mgr_.blocks, 0) > mgr_.dev_info_[0].total_
  /\ CachedFree(mgr_.blocks, 0) > 0
  /\ last.free_mem = mgr_.dev_info_[0].total_

(* ------------------------------------------------------------------ *)
(* update_dev_info on any answer of the driver, by a thread whose active *)
(* device is any of NumQueried devices                                  *)
(* ------------------------------------------------------------------ *)
Queried == 0 .. (NumQueried - 1)
DriverBytes == {0, 64, PhysTotal, PhysTotal + 64, PhysTotal + 128}   \* what cudaMemGetInfo can return

InitQuery ==
  /\ mgr_ \in {[ManagerOf(NumQueried) EXCEPT !.current_device = d] : d \in Queried}
  /\ ws = Workspace0
  /\ scopes = 0
  /\ last = Other
  /\ PinInit
  /\ ThreadsInit

QueryReturns(device, memFree, memTotal, M) ==
  /\ mgr_' = Exit(M)
  /\ last' = [op |-> "update_dev_info", device |-> device, memFree |-> memFree,
              memTotal |-> memTotal, initial_device |-> mgr_.current_device]

UpdateDevInfoAny ==
  /\ \E device \in Queried, memFree \in DriverBytes, memTotal \in DriverBytes :
       QueryReturns(device, memFree, memTotal,
                    UpdateFromDriver(mgr_, device, PhysTotal, memFree, memTotal))
  /\ UNCHANGED <<ws, scopes, pinvars, thrvars>>

NextQuery == UpdateDevInfoAny
SpecQuery == InitQuery /\ [][NextQuery]_vars

(* C12: after update_dev_info(d), whatever free and total bytes the driver
   returned, 0 <= free_ <= total_ for d, total_ exceeds neither the physical
   memory of the device properties nor the total the driver returned, and the
   thread's active device is the one it was before the call. *)
C12_UpdateClampsAndRestores ==
  last.op = "update_dev_info"
    => /\ 0 <= mgr_.dev_info_[last.device].free_
       /\ mgr_.dev_info_[last.device].free_ <= mgr_.dev_info_[last.device].total_
       /\ mgr_.dev_info_[last.device].total_ <= PhysTotal
       /\ mgr_.dev_info_[last.device].total_ <= last.memTotal
       /\ mgr_.current_device = last.initial_device

(* the driver returned more free bytes than total, and more total than the
   device has, for a device that is not the thread's active one *)
C12_Witness ==
  /\ last.op = "update_dev_info"
  /\ last.device # last.initial_device
  /\ last.memFree > last.memTotal /\ last.memTotal > PhysTotal
  /\ mgr_.dev_info_[last.device].free_ = PhysTotal

(* ------------------------------------------------------------------ *)
(* The life cycle: init and reset called directly and through Scopes,   *)
(* among try_allocate and deallocate calls                              *)
(* ------------------------------------------------------------------ *)
InitCall ==
  /\ ~mgr_.fatal
  /\ \E gpus \in GpuLists, debug \in BOOLEAN, debug_env \in DebugEnvs(mgr_),
        oth \in Others :
       /\ mgr_' = Exit(init(mgr_, gpus, debug, debug_env, oth))
       /\ last' = [op |-> "init", init_at |-> mgr_.initialized_, gpus |-> gpus]
  /\ UNCHANGED <<ws, scopes, pinvars, thrvars>>

ResetCall ==
  /\ ~mgr_.fatal
  /\ mgr_' = Exit(reset(mgr_))
  /\ last' = Call("reset", 0, 0, [Plain EXCEPT !.init_at = mgr_.initialized_])
  /\ UNCHANGED <<ws, scopes, pinvars, thrvars>>

NextLife ==
  \/ InitCall \/ ResetCall
  \/ ScopeCtor \/ ScopeDtor
  \/ TryAllocate \/ Deallocate
SpecLife == Init /\ [][NextLife]_vars

(* C13: an init on an initialized Manager, a reset on a Manager that is not
   initialized, and the construction of a Scope on an initialized Manager
   leave the Manager (cub handle, debug_, dev_info_, update_thresholds_,
   initialized_, and the heap behind the handle) as it was. *)
C13_InitResetIdempotent ==
  [][(\/ last'.op \in {"init", "Scope"} /\ mgr_.initialized_
      \/ last'.op = "reset" /\ ~mgr_.initialized_)
       => mgr_' = mgr_]_vars

(* a reset on a Manager that was not initialized: an earlier reset had left it
   with blocks carved under the allocator it dropped *)
C13_Witness ==
  /\ last.op = "reset" /\ ~last.init_at
  /\ ~mgr_.initialized_ /\ ~mgr_.cub_allocator_
  /\ \E d \in Devices : mgr_.dev_info_[d].total_ # 0 /\ mgr_.update_thresholds_[d] # 0
  /\ \E p \in Ptrs : mgr_.blocks[p].st = "orphan"

(* C14: a deallocate of a null pointer, on a Manager without cub handle, or
   while the runtime is unloading takes no lock, does not call DeviceFree and
   leaves the Manager as it was; any other deallocate takes the shared lock,
   frees the block through cub and adds exactly the bytes DeviceFree reported
   to free_ of the device, leaving the rest of dev_info_ and the thresholds. *)
C14_DeallocateFrame ==
  [][last'.op = "deallocate"
       => IF last'.ptr = NULL \/ ~mgr_.cub_allocator_ \/ last'.unloading
          THEN ~last'.locked /\ ~last'.freed /\ mgr_' = mgr_
          ELSE /\ last'.locked /\ last'.freed
               /\ mgr_'.blocks[last'.ptr].st # "live"
               /\ mgr_'.dev_info_[last'.device].free_
                    = mgr_.dev_info_[last'.device].free_ + last'.size
               /\ mgr_'.dev_info_ = [mgr_.dev_info_ EXCEPT ![last'.device].free_ =
                                       mgr_'.dev_info_[last'.device].free_]
               /\ mgr_'.update_thresholds_ = mgr_.update_thresholds_
               /\ mgr_'.initialized_ = mgr_.initialized_
               /\ mgr_'.cub_allocator_ = mgr_.cub_allocator_]_vars

(* a deallocate that returned bytes to the driver and one that did nothing have
   been seen: the last call found the runtime unloading and left a live block *)
C14_Witness ==
  /\ last.op = "deallocate" /\ last.ptr # NULL /\ last.unloading
  /\ mgr_.cub_allocator_ /\ ~last.locked
  /\ mgr_.blocks[last.ptr].st = "live"
  /\ \E d \in Devices : mgr_.hist[d].net > 0

(* ------------------------------------------------------------------ *)
(* The accounting of try_allocate on any estimate and any threshold the  *)
(* decay leaves.  The Manager starts as a Scope over device 0 left it,    *)
(* after k decays of the threshold and with free_ anywhere up to total_.  *)
(* ------------------------------------------------------------------ *)
RECURSIVE Decayed(_, _)
Decayed(threshold, k) ==
  IF k = 0 THEN threshold ELSE Decayed(DecayThreshold(threshold), k - 1)

AcctManager(free, k) ==
  [Scoped(<<0>>) EXCEPT !.dev_info_[0].free_ = free,
                        !.update_thresholds_[0] = Decayed(PhysTotal, k),
                        !.hist[0] = [base |-> free, net |-> 0]]

InitAcct ==
  /\ mgr_ \in {AcctManager(free, k) : free \in InfoFree, k \in 0 .. MaxCurve}
  /\ ws = Workspace0
  /\ scopes = 1
  /\ last = Other
  /\ PinInit
  /\ ThreadsInit

NextAcct == TryAllocate \/ Deallocate
SpecAcct == InitAcct /\ [][NextAcct]_vars

(* C15 as stated: a successful try_allocate that carved bytes refreshes and
   decays the threshold when free_ is below the threshold or below the bytes
   carved, and otherwise debits free_ by the bytes carved without refresh in
   lines 239-250 or change of the threshold; one served from the cache changes
   nothing. *)
C15_RefreshDecaysOrDebit ==
  [][(last'.op = "try_allocate" /\ last'.ret /\ ~mgr_'.fatal)
       => IF last'.size_allocated > 0
          THEN IF \/ last'.free_at < last'.threshold_at
                  \/ last'.size_allocated > last'.free_at
               THEN /\ last'.refreshed
                    /\ mgr_'.update_thresholds_[last'.device]
                         = DecayThreshold(last'.threshold_at)
               ELSE /\ ~last'.refreshed
                    /\ ~last'.flushed
                         => mgr_'.dev_info_[last'.device].free_
                              = last'.free_at - last'.size_allocated
                    /\ mgr_'.update_thresholds_[last'.device] = last'.threshold_at
          ELSE /\ mgr_'.dev_info_ = mgr_.dev_info_
               /\ mgr_'.update_thresholds_ = mgr_.update_thresholds_]_vars

(* C15: a successful try_allocate that carved bytes decays the threshold
   exactly when free_ is below it; lines 239-250 refresh exactly when free_ is
   below the threshold or below the bytes carved, and otherwise debit free_ by
   the bytes carved, which is what free_ holds unless the error handling of
   lines 256-282 refreshed afterwards; one served from the cache changes
   nothing. *)
C15_DecayOnlyBelowThreshold ==
  [][(last'.op = "try_allocate" /\ last'.ret /\ ~mgr_'.fatal)
       => IF last'.size_allocated > 0
          THEN /\ mgr_'.update_thresholds_[last'.device]
                    = IF last'.free_at < last'.threshold_at
                      THEN DecayThreshold(last'.threshold_at)
                      ELSE last'.threshold_at
               /\ last'.refreshed <=> \/ last'.free_at < last'.threshold_at
                                      \/ last'.size_allocated > last'.free_at
               /\ (~last'.refreshed /\ ~last'.flushed)
                    => mgr_'.dev_info_[last'.device].free_
                         = last'.free_at - last'.size_allocated
          ELSE /\ mgr_'.dev_info_ = mgr_.dev_info_
               /\ mgr_'.update_thresholds_ = mgr_.update_thresholds_]_vars

(* a try_allocate carved more bytes than free_ held while free_ was not below
   a threshold above zero: it refreshed and left the threshold *)
C15_Witness ==
  /\ last.op = "try_allocate" /\ last.ret /\ ~last.failed /\ ~mgr_.fatal
  /\ last.threshold_at > 0
  /\ last.free_at >= last.threshold_at
  /\ last.size_allocated > last.free_at
  /\ last.refreshed
  /\ mgr_.update_thresholds_[last.device] = last.threshold_at

(* ------------------------------------------------------------------ *)
(* The error handling of try_allocate, lines 252-283                    *)
(* ------------------------------------------------------------------ *)
FlushCounts(M) == [d \in Devices |-> M.dev_info_[d].flush_count_]

(* C16 as stated: a try_allocate whose DeviceAllocate failed or whose
   cudaGetLastError reported an error refreshes the requested device and adds
   exactly one to its flush counter; a call with neither leaves the flush
   counters; the call returns true iff DeviceAllocate succeeded. *)
C16_ErrorAlwaysFlushes ==
  [][(last'.op = "try_allocate" /\ last'.reached /\ ~mgr_'.fatal)
       => /\ last'.ret <=> last'.kind # "fail"
          /\ IF last'.failed
             THEN /\ last'.flushed
                  /\ FlushCounts(mgr_') = [FlushCounts(mgr_) EXCEPT ![last'.device] = @ + 1]
             ELSE /\ ~last'.flushed
                  /\ FlushCounts(mgr_') = FlushCounts(mgr_)]_vars

(* C16: a try_allocate whose DeviceAllocate failed or whose cudaGetLastError
   reported an error refreshes the requested device and adds exactly one to its
   flush counter when the total_ of that device is not zero, that is when an
   earlier refresh touched it; any other call leaves the flush counters and
   does not refresh after the lock; the call returns true iff DeviceAllocate
   succeeded. *)
C16_ErrorFlushesTouched ==
  [][(last'.op = "try_allocate" /\ last'.reached /\ ~mgr_'.fatal)
       => /\ last'.ret <=> last'.kind # "fail"
          /\ IF last'.failed /\ last'.total_at # 0
             THEN /\ last'.flushed
                  /\ FlushCounts(mgr_') = [FlushCounts(mgr_) EXCEPT ![last'.device] = @ + 1]
             ELSE /\ ~last'.flushed
                  /\ FlushCounts(mgr_') = FlushCounts(mgr_)]_vars

(* an allocation that succeeded on retry left an error behind: the call
   returned true, refreshed the device after the lock and counted one flush *)
C16_Witness ==
  /\ last.op = "try_allocate" /\ last.ret /\ last.failed /\ ~mgr_.fatal
  /\ last.kind = "retry" /\ last.total_at # 0 /\ last.flushed
  /\ mgr_.dev_info_[last.device].flush_count_ = 1

(* ------------------------------------------------------------------ *)
(* The pool of thread_pinned_buffer, one per thread                     *)
(* ------------------------------------------------------------------ *)
(* the groups thread t holds a buffer for, and what a call for group g returns *)
ThreadGroups(t) == DOMAIN loc[t].thost
ThreadReturns(t, g) == loc[t].tdev[g]

(* C17: between its calls each thread's pool holds, for every group it has a
   buffer for, the device alias of a live host buffer whose size is the size
   recorded for the group, which is at least the size last asked for. *)
C17_ThreadPoolMatchesSizes ==
  \A t \in Threads :
    (pc[t] = "idle" /\ ~pin.fatal)
      => \A g \in ThreadGroups(t) :
           /\ loc[t].thost[g] # NULL
           /\ ThreadReturns(t, g) = DevAlias(loc[t].thost[g])
           /\ pin.host[loc[t].thost[g]] # 0
           /\ pin.host[loc[t].thost[g]] = loc[t].tsizes[g + 1]

(* ------------------------------------------------------------------ *)
(* The threshold from one init to the next.  The Manager starts as a    *)
(* Scope over device 0 left it, or as the decays left it that take the  *)
(* threshold to one and to zero, with free_ at either end.              *)
(* ------------------------------------------------------------------ *)
CurveFree == {0, PhysTotal}
CurveDecays == {0, MaxCurve - 1, MaxCurve}

InitCurve ==
  /\ mgr_ \in {AcctManager(free, k) : free \in CurveFree, k \in CurveDecays}
  /\ ws = Workspace0
  /\ scopes = 1
  /\ last = Other
  /\ PinInit
  /\ ThreadsInit

NextCurve == InitCall \/ ResetCall \/ TryAllocate \/ Deallocate
SpecCurve == InitCurve /\ [][NextCurve]_vars

(* init(gpus) names device d *)
Named(gpus, d) == \E i \in DOMAIN gpus : gpus[i] = d

(* the call just made took the below-threshold branch of line 241 on device d *)
TookDecayBranch(L, d) ==
  /\ L.op = "try_allocate" /\ L.reached /\ L.ret /\ L.device = d
  /\ L.size_allocated > 0 /\ L.free_at < L.threshold_at

(* C18 as stated: an init that acts leaves the threshold of every device equal
   to the total_ of the device; the below-threshold branch of try_allocate,
   which refreshes, replaces the threshold by nine tenths of it rounded down, a
   smaller value; nothing else changes a threshold. *)
C18_ThresholdStartsAtTotal ==
  [][\A d \in Devices :
       LET t0 == mgr_.update_thresholds_[d]
           t1 == mgr_'.update_thresholds_[d]
       IN  IF last'.op = "init" /\ ~last'.init_at
           THEN t1 = mgr_'.dev_info_[d].total_
           ELSE IF ~mgr_'.fatal /\ TookDecayBranch(last', d)
           THEN /\ last'.refreshed
                /\ 10 * t1 <= 9 * last'.threshold_at
                /\ 9 * last'.threshold_at < 10 * (t1 + 1)
                /\ t1 < last'.threshold_at
           ELSE \/ t1 = t0
                \/ /\ last'.op = "try_allocate"
                   /\ ~mgr_.initialized_ /\ mgr_'.initialized_
                   /\ t1 = mgr_'.dev_info_[d].total_]_vars

(* C18: an init that acts sets the threshold of each device it names to the
   total_ of the device (as does the init a first try_allocate makes); the
   below-threshold branch of try_allocate, which refreshes, replaces the
   threshold by nine tenths of it rounded down, a smaller value; nothing else
   changes a threshold.  A threshold of zero stays zero under try_allocate. *)
C18_ThresholdOnlyDecays ==
  [][\A d \in Devices :
       LET t0 == mgr_.update_thresholds_[d]
           t1 == mgr_'.update_thresholds_[d]
       IN  IF last'.op = "init" /\ ~last'.init_at
           THEN IF Named(last'.gpus, d) THEN t1 = mgr_'.dev_info_[d].total_ ELSE t1 = t0
           ELSE IF ~mgr_'.fatal /\ TookDecayBranch(last', d)
           THEN /\ last'.refreshed
                /\ 10 * t1 <= 9 * last'.threshold_at
                /\ 9 * last'.threshold_at < 10 * (t1 + 1)
                /\ t1 < last'.threshold_at
                /\ last'.threshold_at = t0 \/ ~mgr_.initialized_
           ELSE \/ t1 = t0
                \/ /\ last'.op = "try_allocate"
                   /\ ~mgr_.initialized_ /\ mgr_'.initialized_
                   /\ t1 = mgr_'.dev_info_[d].total_]_vars

(* decays took the threshold of a device to zero, and a later try_allocate that
   carved bytes found it zero: it refreshed because free_ was short, and the
   threshold is still zero *)
C18_Witness ==
  /\ last.op = "try_allocate" /\ last.ret /\ ~mgr_.fatal
  /\ last.size_allocated > 0 /\ last.threshold_at = 0 /\ last.refreshed
  /\ mgr_.decays[last.device] > 0
  /\ mgr_.update_thresholds_[last.device] = 0
  /\ mgr_.dev_info_[last.device].total_ = PhysTotal

(* ------------------------------------------------------------------ *)
(* GPUMemory::Init and GPUMemory::Finalize, lines 29-57, called by      *)
(* threads whose current device is any of the devices in Queried.       *)
(* ------------------------------------------------------------------ *)
MaxMade == 6             \* Workspaces made by Init in one run

tblvars == <<mgr_, ws, scopes, last, pin, pcall, pc, loc, rw>>

(* the element of a table for a device, NULL where the vector has none *)
Entry(v, device) == IF device + 1 <= Len(v) THEN v[device + 1] ELSE NULL

(* lines 32-34 and 38-40: resize(device + 1) when the vector is shorter *)
Extended(v, device) == IF device + 1 > Len(v) THEN Grow(v, device + 1, NULL) ELSE v

(* lines 35-37 and 41-43: make_shared<Workspace>() when the element is null *)
Filled(v, device, w) == IF v[device + 1] = NULL THEN [v EXCEPT ![device + 1] = w] ELSE v

(* lines 48 and 52: the element is there and not null *)
Present(v, device) == device < Len(v) /\ v[device + 1] # NULL

(* std::lock_guard on ws_mutex_init_ *)
MutexTakenAnyway(G) == TRUE                          \* variant: no wait
MutexFree(G) == G.ws_mutex_init_ = 0
Locked(G, t, to, device) ==
  [G EXCEPT !.ws_mutex_init_ = t, !.at[t] = to, !.device[t] = device]
Unlocked(G, t) == [G EXCEPT !.ws_mutex_init_ = 0, !.at[t] = "out", !.device[t] = 0]

(* lines 30-31 *)
InitEnter(t) ==
  /\ gpumem.at[t] = "out" /\ MutexFree(gpumem)
  /\ gpumem.made + 2 <= MaxMade
  /\ \E device \in Queried : gpumem' = Locked(gpumem, t, "init_ws", device)
  /\ UNCHANGED tblvars

(* lines 32-37 *)
InitWorkspace(t) ==
  /\ gpumem.at[t] = "init_ws"
  /\ LET device == gpumem.device[t]
         v == Extended(gpumem.workspace_, device)
         made == IF v[device + 1] = NULL THEN gpumem.made + 1 ELSE gpumem.made
     IN  gpumem' = [gpumem EXCEPT !.workspace_ = Filled(v, device, made),
                                  !.made = made, !.at[t] = "init_weights"]
  /\ UNCHANGED tblvars

(* lines 38-44: the weights table, then the lock_guard lets go *)
InitWeights(t) ==
  /\ gpumem.at[t] = "init_weights"
  /\ LET device == gpumem.device[t]
         v == Extended(gpumem.weights_workspace_, device)
         made == IF v[device + 1] = NULL THEN gpumem.made + 1 ELSE gpumem.made
     IN  gpumem' = Unlocked([gpumem EXCEPT !.weights_workspace_ = Filled(v, device, made),
                                           !.made = made,
                                           !.ready = @ \cup {device}], t)
  /\ UNCHANGED tblvars

(* lines 47-48 *)
FinalizeEnter(t) ==
  /\ gpumem.at[t] = "out" /\ MutexFree(gpumem)
  /\ \E device \in Queried :
       gpumem' = Locked([gpumem EXCEPT !.ready = @ \ {device}], t, "fin_ws", device)
  /\ UNCHANGED tblvars

(* lines 49-52 *)
FinalizeWorkspace(t) ==
  /\ gpumem.at[t] = "fin_ws"
  /\ LET device == gpumem.device[t]
     IN  gpumem' = IF Present(gpumem.workspace_, device)
                   THEN [gpumem EXCEPT
                           !.released = @ \cup {gpumem.workspace_[device + 1]},
                           !.workspace_[device + 1] = NULL,
                           !.at[t] = "fin_weights"]
                   ELSE [gpumem EXCEPT !.at[t] = "fin_weights"]
  /\ UNCHANGED tblvars

(* lines 53-57 *)
FinalizeWeights(t) ==
  /\ gpumem.at[t] = "fin_weights"
  /\ LET device == gpumem.device[t]
     IN  gpumem' = Unlocked(IF Present(gpumem.weights_workspace_, device)
                            THEN [gpumem EXCEPT
                                    !.released = @ \cup {gpumem.weights_workspace_[device + 1]},
                                    !.weights_workspace_[device + 1] = NULL]
                            ELSE gpumem, t)
  /\ UNCHANGED tblvars

NextTables ==
  \E t \in Threads :
    \/ InitEnter(t) \/ InitWorkspace(t) \/ InitWeights(t)
    \/ FinalizeEnter(t) \/ FinalizeWorkspace(t) \/ FinalizeWeights(t)
SpecTables == Init /\ [][NextTables]_vars

(* the threads inside Init or Finalize *)
Inside(G) == {t \in Threads : G.at[t] # "out"}

(* both entries of the device exist *)
BothExist(G, d) == Entry(G.workspace_, d) # NULL /\ Entry(G.weights_workspace_, d) # NULL

(* the step leaves every entry of table v but that of device d *)
OthersKept(v0, v1, d) == \A e \in Queried \ {d} : Entry(v1, e) = Entry(v0, e)

(* C19: at most one thread is inside Init or Finalize, and it holds
   ws_mutex_init_; from the return of Init for a device until Finalize for it
   begins both entries of the device exist; Init makes a Workspace only for a
   null entry of its device and keeps one that is there; Finalize calls
   release() on the two Workspaces of its device and resets those entries;
   neither touches the entries of another device. *)
C19_TablesUnderMutex ==
  [][/\ Cardinality(Inside(gpumem')) <= 1
     /\ \A t \in Inside(gpumem') : gpumem'.ws_mutex_init_ = t
     /\ \A d \in gpumem'.ready : BothExist(gpumem', d)
     /\ \A t \in Threads :
          LET d == gpumem.device[t]
              w0 == Entry(gpumem.workspace_, d)
              w1 == Entry(gpumem'.workspace_, d)
              ww0 == Entry(gpumem.weights_workspace_, d)
              ww1 == Entry(gpumem'.weights_workspace_, d)
          IN  /\ (gpumem.at[t] = "init_ws" /\ gpumem'.at[t] # "init_ws")
                   => /\ w1 # NULL /\ (w0 # NULL => w1 = w0)
                      /\ (w0 = NULL => w1 \notin gpumem.released /\ w1 > gpumem.made)
                      /\ OthersKept(gpumem.workspace_, gpumem'.workspace_, d)
                      /\ gpumem'.weights_workspace_ = gpumem.weights_workspace_
                      /\ gpumem'.released = gpumem.released
              /\ (gpumem.at[t] = "init_weights" /\ gpumem'.at[t] # "init_weights")
                   => /\ ww1 # NULL /\ (ww0 # NULL => ww1 = ww0)
                      /\ (ww0 = NULL => ww1 \notin gpumem.released /\ ww1 > gpumem.made)
                      /\ OthersKept(gpumem.weights_workspace_, gpumem'.weights_workspace_, d)
                      /\ gpumem'.workspace_ = gpumem.workspace_
                      /\ gpumem'.released = gpumem.released
              /\ (gpumem.at[t] = "fin_ws" /\ gpumem'.at[t] # "fin_ws")
                   => /\ w1 = NULL
                      /\ gpumem'.released = gpumem.released \cup ({w0} \ {NULL})
                      /\ OthersKept(gpumem.workspace_, gpumem'.workspace_, d)
                      /\ gpumem'.weights_workspace_ = gpumem.weights_workspace_
              /\ (gpumem.at[t] = "fin_weights" /\ gpumem'.at[t] # "fin_weights")
                   => /\ ww1 = NULL
                      /\ gpumem'.released = gpumem.released \cup ({ww0} \ {NULL})
                      /\ OthersKept(gpumem.weights_workspace_, gpumem'.weights_workspace_, d)
                      /\ gpumem'.workspace_ = gpumem.workspace_
              /\ (gpumem.at[t] = "out" /\ gpumem'.at[t] # "out")
                   => /\ gpumem'.workspace_ = gpumem.workspace_
                      /\ gpumem'.weights_workspace_ = gpumem.weights_workspace_
                      /\ gpumem'.released = gpumem.released]_vars

(* a thread is inside Finalize for device 0 and has reset its first entry while
   the other thread waits outside; Init has returned for device 1, whose two
   Workspaces are there, made after those of device 0 had been released once *)
C19_Witness ==
  /\ \E t \in Threads : gpumem.at[t] = "fin_weights" /\ gpumem.device[t] = 0
  /\ Entry(gpumem.workspace_, 0) = NULL /\ Entry(gpumem.weights_workspace_, 0) # NULL
  /\ 1 \in gpumem.ready /\ BothExist(gpumem, 1)
  /\ Cardinality(gpumem.released) >= 3

(* ------------------------------------------------------------------ *)
(* The two guards of the Manager                                        *)
(* ------------------------------------------------------------------ *)
(* C20: between the calls of a single thread initialized_ is true exactly when
   cub_allocator_ holds an allocator, so the test of line 226 and the tests of
   lines 288 and 336 agree. *)
C20_FlagIffHandle ==
  ~mgr_.fatal => (mgr_.initialized_ <=> mgr_.cub_allocator_)

(* a deallocate of a block found neither flag nor handle and returned at line
   289: a reset had dropped the allocator that the init of a first
   try_allocate had made *)
C20_Witness ==
  /\ last.op = "deallocate" /\ last.ptr # NULL /\ ~last.unloading /\ ~last.locked
  /\ ~mgr_.initialized_ /\ ~mgr_.cub_allocator_ /\ ~mgr_.fatal
  /\ mgr_.scope_static
  /\ mgr_.blocks[last.ptr].st = "orphan"

====
